---- MODULE Spec2Model ----
(***************************************************************************)
(* h5_Cruncher: the CSV export paths.                                      *)
(*                                                                         *)
(*   - DataFrameExporter.export_to_csv (core/dataframe_exporter.py), the   *)
(*     chunked exporter driven by a progress callback;                     *)
(*   - ExportWindow (ui/export_window.py): the row-selection parser, the   *)
(*     export button handler, the worker thread and the Cancel button.     *)
(*                                                                         *)
(* Text is a sequence of one-character strings.  A table row is named by   *)
(* its index in the dataset; a CSV file is a sequence of lines.            *)
(***************************************************************************)
EXTENDS Integers, Sequences, FiniteSets, TLC

\* ------------------------------------------------------------------ bounds
MaxLen == 3        \* longest row-selection text typed into the entry
MaxRows == 3       \* rows of the dataset read by export_to_csv
MaxSel == 3        \* longest explicit rows list given to export_to_csv
MaxChunk == 2      \* largest chunk_size given to export_to_csv

\* --------------------------------------------------------- text utilities
Digits == <<"0", "1", "2", "3", "4", "5", "6", "7", "8", "9">>

IsDigit(c) == \E d \in 1..10 : Digits[d] = c

DigitVal(c) == (CHOOSE d \in 1..10 : Digits[d] = c) - 1

\* `ch in s`
Contains(s, ch) == \E i \in 1..Len(s) : s[i] = ch

\* str.split(ch): the pieces between the occurrences of ch, empty pieces kept
RECURSIVE Split(_, _)
Split(s, ch) ==
    IF ~Contains(s, ch) THEN <<s>>
    ELSE LET p == CHOOSE i \in 1..Len(s) :
                      s[i] = ch /\ \A j \in 1..(i - 1) : s[j] # ch
         IN  <<SubSeq(s, 1, p - 1)>> \o Split(SubSeq(s, p + 1, Len(s)), ch)

\* str.strip(): leading and trailing blanks removed
RECURSIVE Strip(_)
Strip(s) ==
    IF s = <<>> THEN s
    ELSE IF Head(s) = " " THEN Strip(Tail(s))
    ELSE IF s[Len(s)] = " " THEN Strip(SubSeq(s, 1, Len(s) - 1))
    ELSE s

\* int(s) raises ValueError unless s, blanks around it ignored, is a
\* non-empty run of decimal digits (the texts of this model hold no sign
\* other than "-", and "-" never reaches int(): see ParsePart)
IntRaises(s) ==
    LET t == Strip(s)
    IN  t = <<>> \/ \E i \in 1..Len(t) : ~IsDigit(t[i])

RECURSIVE DecimalValue(_)
DecimalValue(t) ==
    IF t = <<>> THEN 0
    ELSE 10 * DecimalValue(SubSeq(t, 1, Len(t) - 1)) + DigitVal(t[Len(t)])

IntOf(s) == DecimalValue(Strip(s))

\* list(range(a, b + 1))
RangeList(a, b) == [i \in 1..(b - a + 1) |-> a + i - 1]

SeqToSet(s) == {s[i] : i \in 1..Len(s)}

\* sorted(list(S)) of a finite set of integers
RECURSIVE SortedOfSet(_)
SortedOfSet(S) ==
    IF S = {} THEN <<>>
    ELSE LET m == CHOOSE x \in S : \A y \in S : x <= y
         IN  <<m>> \o SortedOfSet(S \ {m})

\* sorted(s) of a list of integers: repeated values are kept
Sorted(s) == SortSeq(s, LAMBDA a, b : a < b)

\* ------------------------------------------- ExportWindow: row selection
\* The placeholder text the entry is created with (export_window.py:150).
Placeholder ==
    <<"L", "e", "a", "v", "e", " ", "b", "l", "a", "n", "k", " ",
      "f", "o", "r", " ", "a", "l", "l", " ", "r", "o", "w", "s">>

\* One comma-separated part: the rows it adds, or the error it raises.
\*   '-' in part : start_str, end_str = part.split('-') (ValueError unless
\*                 exactly two pieces), int() of both, start > end raises
\*   otherwise   : int(part)
ParsePart(raw) ==
    LET part == Strip(raw)
    IN  IF Contains(part, "-")
        THEN LET pieces == Split(part, "-")
             IN  IF Len(pieces) # 2
                    \/ IntRaises(pieces[1]) \/ IntRaises(pieces[2])
                 THEN [err |-> "Invalid range format", rows |-> <<>>]
                 ELSE IF IntOf(pieces[1]) > IntOf(pieces[2])
                 THEN [err |-> "Invalid range format", rows |-> <<>>]
                 ELSE [err |-> "",
                       rows |-> RangeList(IntOf(pieces[1]), IntOf(pieces[2]))]
        ELSE IF IntRaises(part)
             THEN [err |-> "Invalid row number", rows |-> <<>>]
             ELSE [err |-> "", rows |-> <<IntOf(part)>>]

\* ParseParts with `continue` in place of `return []`: a part that raises
\* is skipped.
RECURSIVE ParsePartsSkip(_, _)
ParsePartsSkip(parts, rows) ==
    IF parts = <<>> THEN [none |-> FALSE, err |-> "", rows |-> rows]
    ELSE LET r == ParsePart(Head(parts))
         IN  ParsePartsSkip(Tail(parts), rows \o r.rows)

\* The for loop over the parts: rows collected so far, stopping at the
\* first part that raises (return [] after the message box).
RECURSIVE ParseParts(_, _)
ParseParts(parts, rows) ==
    IF parts = <<>> THEN [none |-> FALSE, err |-> "", rows |-> rows]
    ELSE LET r == ParsePart(Head(parts))
         IN  IF r.err # ""
             THEN [none |-> FALSE, err |-> r.err, rows |-> <<>>]
             ELSE ParseParts(Tail(parts), rows \o r.rows)

\* _parse_row_selection.  none = TRUE is Python's None (all rows); rows is
\* the returned list; err is the text of the message box shown ("" = none).
parse_row_selection(selection_string) ==
    IF selection_string = <<>> \/ selection_string = Placeholder
    THEN [none |-> TRUE, err |-> "", rows |-> <<>>]
    ELSE LET r == ParseParts(Split(selection_string, ","), <<>>)
         IN  [none |-> FALSE, err |-> r.err,
              rows |-> SortedOfSet(SeqToSet(r.rows))]

\* --------------------------------------------------- the dataset and CSV
\* The dataset at dataset_path, with nrows rows: a pandas table stored in
\* a group with block<N>_values children ("frame", the fixed format), a
\* pandas table stored in a group without such children ("table", the
\* table format, which pandas.read_hdf reads just the same), or a plain
\* leaf array ("array").  A frame or table has the columns DsColumns.
DsColumns == <<"a", "b">>

Datasets == [kind : {"frame", "table", "array"}, nrows : 0..MaxRows]

\* The column lists a caller asks for ("z" is not a column of the dataset).
ColumnRequests == {<<>>, <<"a">>, <<"b", "a">>, <<"a", "z">>, <<"z">>}

\* The lines of a CSV file.
HeaderLine(cols) == [kind |-> "header", cols |-> cols, row |-> -1]
RowLine(cols, r) == [kind |-> "row", cols |-> cols, row |-> r]
OldLine == [kind |-> "old", cols |-> <<>>, row |-> -1]

\* What output_csv_path holds before the job: nothing, an empty file, or
\* a file left by someone else.
NoFile == [exists |-> FALSE, lines |-> <<>>]
InitialFiles == {NoFile,
                 [exists |-> TRUE, lines |-> <<>>],
                 [exists |-> TRUE, lines |-> <<OldLine>>]}

\* os.path.getsize, counted in lines (every line has at least one byte)
FileSize(f) == Len(f.lines)

\* pandas.read_hdf(key, start, stop) / Dataset[start:end]: the rows
\* start .. min(stop, nrows) - 1, each named by its index
ReadSlice(ds, start, stop) ==
    LET hi == IF stop < ds.nrows THEN stop ELSE ds.nrows
    IN  IF hi <= start THEN <<>> ELSE [i \in 1..(hi - start) |-> start + i - 1]

\* DataFrame.iloc[positions] raises IndexError on a position past the end
IlocRaises(df, positions) ==
    \E i \in 1..Len(positions) : positions[i] >= Len(df) \/ positions[i] < 0

Iloc(df, positions) == [i \in 1..Len(positions) |-> df[positions[i] + 1]]

\* DataFrame.to_csv(path, mode, header, index=False)
ToCsv(f, df, cols, mode, header) ==
    [exists |-> TRUE,
     lines |-> (IF mode = "w" THEN <<>> ELSE f.lines)
               \o (IF header THEN <<HeaderLine(cols)>> ELSE <<>>)
               \o [i \in 1..Len(df) |-> RowLine(cols, df[i])]]

\* ------------------------------------ DataFrameExporter.export_to_csv
\* A percentage is the fraction num/den (25 + (chunk_idx / len(chunks)) * 70
\* is not an integer).
Pct(num, den) == [num |-> num, den |-> den]

PctLeq(p, q) == p.num * q.den <= q.num * p.den

\* The explicit rows lists a caller passes (any order, repeats allowed,
\* indices possibly past the end of a short dataset), and None.
RowLists == UNION {[1..n -> 0..(MaxRows - 1)] : n \in 0..MaxSel}

RowArgs == {[none |-> TRUE, list |-> <<>>]}
           \cup {[none |-> FALSE, list |-> l] : l \in RowLists}

\* `if rows:` is false for None and for the empty list
Truthy(r) == ~r.none /\ r.list # <<>>

\* all(row_indices[i] + 1 == row_indices[i+1] for i in range(len - 1))
AllConsecutive(l) == \A i \in 1..(Len(l) - 1) : l[i] + 1 = l[i + 1]

\* get_dataset_info(...)['shape'] is a tuple for a leaf array, and for a
\* group only when a block<N>_values child has rows (h5_file_handler.py
\* 126-148); otherwise it is the text 'Inferred'.
ShapeIsTuple(ds) == ds.kind = "array" \/ (ds.kind = "frame" /\ ds.nrows > 0)

\* get_dataset_data(path, max_elements) returns a DataFrame for a group
\* (read_hdf(stop=max_elements)) and a numpy array for a leaf array.
SampleIsDataFrame(ds) == ds.kind \in {"frame", "table"}

\* lines 34-38: the row count when rows is None or empty
TotalDatasetRows(ds) ==
    IF ShapeIsTuple(ds) THEN ds.nrows
    ELSE IF SampleIsDataFrame(ds) THEN Len(ReadSlice(ds, 0, 1))
    ELSE ds.nrows

\* line 30: row_indices = sorted(rows)
NormalizeRows(l) == Sorted(l)

\* ExistingColumns iterating over the sample's columns instead of the
\* requested ones.
ExistingColumnsOfSample(cols, available) ==
    SelectSeq(available, LAMBDA c : \E i \in 1..Len(cols) : cols[i] = c)

\* lines 48-54: requested columns missing from the sample are dropped
ExistingColumns(cols, available) ==
    SelectSeq(cols, LAMBDA c : \E i \in 1..Len(available) : available[i] = c)

\* A chunk of the plan: a (start, end) tuple, or an explicit index list.
SliceChunk(start, end) == [slice |-> TRUE, start |-> start, end |-> end,
                           idx |-> <<>>]
ListChunk(l) == [slice |-> FALSE, start |-> 0, end |-> 0, idx |-> l]

\* range(0, n, step) as a list
StepRange(n, step) == [k \in 1..((n + step - 1) \div step) |-> (k - 1) * step]

Min2(a, b) == IF a < b THEN a ELSE b

\* line 59 and line 70: the branch taken for slice-style chunks
UseSlices(cont, r) == cont /\ ~Truthy(r)

\* lines 58-63
BuildChunks(cont, r, indices, total, size) ==
    IF UseSlices(cont, r)
    THEN [k \in 1..Len(StepRange(total, size)) |->
            SliceChunk(StepRange(total, size)[k],
                       Min2(StepRange(total, size)[k] + size, total))]
    ELSE [k \in 1..Len(StepRange(Len(indices), size)) |->
            ListChunk(SubSeq(indices, StepRange(Len(indices), size)[k] + 1,
                             Min2(StepRange(Len(indices), size)[k] + size,
                                  Len(indices))))]

SeqMin(l) == CHOOSE x \in SeqToSet(l) : \A y \in SeqToSet(l) : x <= y
SeqMax(l) == CHOOSE x \in SeqToSet(l) : \A y \in SeqToSet(l) : x >= y

\* ChunkMode and ChunkHeader without the test of chunk_idx.
ChunkModeAlwaysW(idx) == "w"
ChunkHeaderAlways(idx) == TRUE

\* line 80: to_csv(mode='w' if chunk_idx == 0 else 'a',
\*                 header=(chunk_idx == 0))
ChunkMode(idx) == IF idx = 0 THEN "w" ELSE "a"
ChunkHeader(idx) == idx = 0

\* OutputPresent without the size test.
OutputExists(f) == f.exists

\* line 87: os.path.exists(path) and os.path.getsize(path) > 0
OutputPresent(f) == f.exists /\ FileSize(f) > 0

\* lines 70-79 for one chunk: the rows read and kept, or an exception.
\* df[columns] raises on a numpy array (and to_csv does not exist on one)
\* and on a column the frame does not have.
SelectRaises(ds, cols) ==
    \/ ds.kind = "array"
    \/ \E i \in 1..Len(cols) : \A j \in 1..Len(DsColumns) : DsColumns[j] # cols[i]

ChunkRead(ds, chunk) ==
    IF chunk.slice THEN ReadSlice(ds, chunk.start, chunk.end)
    ELSE ReadSlice(ds, SeqMin(chunk.idx), SeqMax(chunk.idx) + 1)

ChunkPositions(chunk) ==
    [i \in 1..Len(chunk.idx) |-> chunk.idx[i] - SeqMin(chunk.idx)]

ChunkRaises(ds, chunk, cols) ==
    \/ /\ ~chunk.slice
       /\ ds.kind \in {"frame", "table"}
       /\ IlocRaises(ChunkRead(ds, chunk), ChunkPositions(chunk))
    \/ SelectRaises(ds, cols)

ChunkFrame(ds, chunk) ==
    IF chunk.slice THEN ChunkRead(ds, chunk)
    ELSE Iloc(ChunkRead(ds, chunk), ChunkPositions(chunk))

VARIABLES
    dataset,               \* the node at dataset_path
    columns_arg,           \* argument columns
    rows,                  \* argument rows
    chunk_size,            \* argument chunk_size
    csv_before,            \* output_csv_path before the call
    output_csv,            \* the file at output_csv_path
    pc,                    \* position of the call in export_to_csv
    columns,               \* local columns (rebound on line 54)
    row_indices,
    total_rows_to_export,
    is_continuous_slice,
    chunks,
    chunk_idx,             \* chunks written so far = index of the next one
    progress_calls,        \* percentages passed to progress_callback
    result,                \* "running", "returned", or the exception raised
    interrupted_at         \* chunk_idx when update_progress raised
                           \* InterruptedError inside the try body, else -1

VARIABLES
    row_selection_string,  \* text of row_selection_entry read by _export_csv
    selected_columns,      \* ExportWindow.selected_columns
    h5_node,               \* the node at ExportWindow.dataset_path
    csv_file,              \* the file at the path chosen in the save dialog
    ui,                    \* "form", "progress" (progress dialog open), "closed"
    attempt,               \* how the last _export_csv call ended
    message_box,           \* last message box shown: [title, text]
    rows_to_export,        \* argument of the worker thread
    cancel_export,         \* ExportWindow.cancel_export
    worker,                \* position of the export thread
    data_df,               \* local data_df of the worker
    next_row,              \* loop variable i of _export_large_csv
    after_queue,           \* callbacks queued with dialog.after(0, ...)
    progress_var,          \* percentage shown by the progress bar
    status_label,          \* text of the status label
    csv_at_call,           \* csv_file when _export_csv was last called
    h5_reads,              \* read_dataset calls since _export_csv was called
    chunks_written,        \* chunk writes of the running _export_large_csv
    cancelled_after        \* chunks_written when Cancel was pressed, else -1

VARIABLES
    obj,                   \* the object at the path given to H5FileHandler
    op,                    \* the H5FileHandler method called last
    ret                    \* what that call returned or raised

wvars == <<row_selection_string, selected_columns, h5_node, csv_file, ui,
           attempt, message_box, rows_to_export, cancel_export, worker,
           data_df, next_row, after_queue, progress_var, status_label,
           csv_at_call, h5_reads, chunks_written, cancelled_after>>

job == <<dataset, columns_arg, rows, chunk_size, csv_before>>
plan == <<row_indices, total_rows_to_export, is_continuous_slice>>
evars == <<job, output_csv, pc, columns, plan, chunks, chunk_idx,
           progress_calls, result, interrupted_at>>

VARIABLES
    scan_node,             \* the dataset opened in SpecificInstanceExportWindow
    value_var,             \* text of the value entry
    selected_column,       \* SpecificInstanceExportWindow.selected_column
    search_value,          \* SpecificInstanceExportWindow.search_value
    scan_pc,               \* position of _update_preview
    scan_total_rows,            \* local total_rows of _update_preview
    scan_chunk_size,       \* local chunk_size
    start_row,             \* loop variable of the chunk loop
    chunks_processed,
    total_matches,
    filtered_df,           \* rows of SpecificInstanceExportWindow.filtered_df
    preview_status,        \* what status_label shows when the search ended
    matches_shown,         \* the counts shown as "Found N matches so far"
    scanned                \* the row ranges read by the chunk loop so far

hvars == <<obj, op, ret>>

svars == <<scan_node, value_var, selected_column, search_value, scan_pc,
           scan_total_rows, scan_chunk_size, start_row, chunks_processed,
           total_matches, filtered_df, preview_status, matches_shown,
           scanned>>

VARIABLES
    disk,                  \* the files the file dialog can return
    upload_current_file,   \* FileUpload.current_file
    main_current_file,     \* MainWindow.current_file
    main_datasets,         \* MainWindow.datasets
    list_datasets,         \* DatasetList.datasets, one button each
    list_current_file_path, \* DatasetList.current_file_path
    success_buttons,       \* dataset buttons created with bootstyle "success"
    exportable_count,      \* exportable_count of the last button creation
    main_message,          \* title of the last message box of these windows
    options_dialog         \* the last dataset options dialog opened

mvars == <<disk, upload_current_file, main_current_file, main_datasets,
           list_datasets, list_current_file_path, success_buttons,
           exportable_count, main_message, options_dialog>>

VARIABLES
    df_columns,            \* ExportWindow.df_columns
    column_search_var,     \* text of the column search entry
    column_vars,           \* value of the checkbox variable of each
                           \* column displayed
    column_selection_state \* ExportWindow.column_selection_state

lvars == <<df_columns, column_search_var, column_vars,
           column_selection_state>>

VARIABLES
    pager,                 \* the window whose column pages are shown:
                           \* "DatasetInspector",
                           \* "SpecificInstanceExportWindow" or "none"
    loaded_columns,        \* DatasetInspector.all_columns,
                           \* SpecificInstanceExportWindow.df_columns
    page_search_var,       \* text of the search entry of that window
    filtered_columns,      \* .filtered_columns
    current_page,          \* .current_page
    total_pages,           \* .total_pages
    displayed_columns      \* the columns whose widgets are in the window

pvars == <<pager, loaded_columns, page_search_var, filtered_columns,
           current_page, total_pages, displayed_columns>>

\* wvars without selected_columns
export_vars == <<row_selection_string, h5_node, csv_file, ui, attempt,
                 message_box, rows_to_export, cancel_export, worker,
                 data_df, next_row, after_queue, progress_var, status_label,
                 csv_at_call, h5_reads, chunks_written, cancelled_after>>

\* What an action of one part of the program leaves alone.
beside_exporter == <<wvars, hvars, svars, mvars, lvars, pvars>>
beside_window == <<evars, hvars, svars, mvars, lvars, pvars>>
beside_handler == <<evars, wvars, svars, mvars, lvars, pvars>>
beside_search == <<evars, wvars, hvars, mvars, lvars, pvars>>
beside_main == <<evars, wvars, hvars, svars, lvars, pvars>>
beside_select == <<evars, export_vars, hvars, svars, mvars, pvars>>
beside_pages == <<evars, wvars, hvars, svars, mvars, lvars>>

vars == <<evars, wvars, hvars, svars, mvars, lvars, pvars>>

InitExporter ==
    /\ dataset \in Datasets
    /\ columns_arg \in ColumnRequests
    /\ rows \in RowArgs
    /\ chunk_size \in 1..MaxChunk
    /\ csv_before \in InitialFiles
    /\ output_csv = csv_before
    /\ pc = "initializing"
    /\ columns = columns_arg
    /\ row_indices = <<>>
    /\ total_rows_to_export = 0
    /\ is_continuous_slice = FALSE
    /\ chunks = <<>>
    /\ chunk_idx = 0
    /\ progress_calls = <<>>
    /\ result = "running"
    /\ interrupted_at = -1

\* lines 92 and 97 handled as if "except Exception" caught everything
ExceptClauseBroad(raised) == "except_Exception"

\* lines 92 and 97: the except clause that catches an exception raised in
\* the try body; InterruptedError is tested first.
ExceptClause(raised) ==
    IF raised = "InterruptedError" THEN "except_InterruptedError"
    ELSE "except_Exception"

\* update_progress(pct, msg): the callback receives pct and either returns
\* or raises InterruptedError (the caller's way to cancel).
Callback(pct, interrupt) ==
    /\ progress_calls' = Append(progress_calls, pct)
    /\ interrupted_at' = IF interrupt THEN chunk_idx ELSE interrupted_at
    /\ interrupt =>
         /\ pc' = ExceptClause("InterruptedError")
         /\ UNCHANGED <<job, output_csv, columns, plan, chunks, chunk_idx,
                        result>>

\* line 21
Initializing ==
    /\ pc = "initializing"
    /\ UNCHANGED beside_exporter
    /\ \E interrupt \in BOOLEAN :
         /\ Callback(Pct(5, 1), interrupt)
         /\ ~interrupt =>
              /\ pc' = "analyzing"
              /\ UNCHANGED <<job, output_csv, columns, plan, chunks,
                             chunk_idx, result>>

\* lines 26-42
Analyzing ==
    /\ pc = "analyzing"
    /\ UNCHANGED beside_exporter
    /\ \E interrupt \in BOOLEAN :
         /\ Callback(Pct(10, 1), interrupt)
         /\ ~interrupt =>
              /\ IF Truthy(rows)
                 THEN /\ row_indices' = NormalizeRows(rows.list)
                      /\ total_rows_to_export' = Len(NormalizeRows(rows.list))
                      /\ is_continuous_slice' =
                            (Len(rows.list) > 1
                             /\ AllConsecutive(NormalizeRows(rows.list)))
                 ELSE /\ row_indices' = RangeList(0, TotalDatasetRows(dataset) - 1)
                      /\ total_rows_to_export' = TotalDatasetRows(dataset)
                      /\ is_continuous_slice' = TRUE
              /\ pc' = "preparing"
              /\ UNCHANGED <<job, output_csv, columns, chunks, chunk_idx,
                             result>>

\* line 44
Preparing ==
    /\ pc = "preparing"
    /\ UNCHANGED beside_exporter
    /\ \E interrupt \in BOOLEAN :
         /\ Callback(Pct(15, 1), interrupt)
         /\ ~interrupt =>
              /\ pc' = "validating"
              /\ UNCHANGED <<job, output_csv, columns, plan, chunks,
                             chunk_idx, result>>

\* lines 46-63
Validating ==
    /\ pc = "validating"
    /\ UNCHANGED beside_exporter
    /\ \E interrupt \in BOOLEAN :
         /\ Callback(Pct(20, 1), interrupt)
         /\ ~interrupt =>
              LET kept == IF SampleIsDataFrame(dataset)
                          THEN ExistingColumns(columns, DsColumns)
                          ELSE columns
              IN  /\ columns' = kept
                  /\ IF kept = <<>>
                     THEN /\ pc' = "except_Exception"
                          /\ UNCHANGED chunks
                     ELSE /\ pc' = "chunking"
                          /\ chunks' = BuildChunks(is_continuous_slice, rows,
                                                   row_indices,
                                                   total_rows_to_export,
                                                   chunk_size)
                  /\ UNCHANGED <<job, output_csv, plan, chunk_idx, result>>

\* line 65
Chunking ==
    /\ pc = "chunking"
    /\ UNCHANGED beside_exporter
    /\ \E interrupt \in BOOLEAN :
         /\ Callback(Pct(25, 1), interrupt)
         /\ ~interrupt =>
              /\ pc' = IF chunks = <<>> THEN "finalizing" ELSE "writing"
              /\ UNCHANGED <<job, output_csv, columns, plan, chunks,
                             chunk_idx, result>>

\* lines 67-83: one iteration of the chunk loop.  read_dataset can fail
\* (lines 281-282) whatever the chunk.
Writing ==
    /\ pc = "writing"
    /\ UNCHANGED beside_exporter
    /\ \E interrupt \in BOOLEAN, read_fails \in BOOLEAN :
         LET chunk == chunks[chunk_idx + 1]
         IN  /\ Callback(Pct(25 * Len(chunks) + chunk_idx * 70, Len(chunks)),
                         interrupt)
             /\ ~interrupt =>
                  /\ IF read_fails \/ ChunkRaises(dataset, chunk, columns)
                     THEN /\ pc' = "except_Exception"
                          /\ UNCHANGED <<output_csv, chunk_idx>>
                     ELSE /\ output_csv' = ToCsv(output_csv,
                                                 ChunkFrame(dataset, chunk),
                                                 columns,
                                                 ChunkMode(chunk_idx),
                                                 ChunkHeader(chunk_idx))
                          /\ chunk_idx' = chunk_idx + 1
                          /\ pc' = IF chunk_idx + 1 = Len(chunks)
                                   THEN "finalizing" ELSE "writing"
                  /\ UNCHANGED <<job, columns, plan, chunks, result>>

\* lines 85-90, up to the completion check
Finalizing ==
    /\ pc = "finalizing"
    /\ UNCHANGED beside_exporter
    /\ \E interrupt \in BOOLEAN :
         /\ Callback(Pct(95, 1), interrupt)
         /\ ~interrupt =>
              /\ pc' = IF OutputPresent(output_csv)
                       THEN "complete" ELSE "except_Exception"
              /\ UNCHANGED <<job, output_csv, columns, plan, chunks,
                             chunk_idx, result>>

\* line 88 and the normal return
Complete ==
    /\ pc = "complete"
    /\ UNCHANGED beside_exporter
    /\ \E interrupt \in BOOLEAN :
         /\ Callback(Pct(100, 1), interrupt)
         /\ ~interrupt =>
              /\ pc' = "done"
              /\ result' = "returned"
              /\ UNCHANGED <<job, output_csv, columns, plan, chunks,
                             chunk_idx>>

\* lines 92-96: progress_callback(0, "Export cancelled by user"); raise.
\* Whether the callback returns or raises again, an InterruptedError
\* leaves the call.
ExceptInterruptedError ==
    /\ pc = "except_InterruptedError"
    /\ UNCHANGED beside_exporter
    /\ progress_calls' = Append(progress_calls, Pct(0, 1))
    /\ pc' = "done"
    /\ result' = "InterruptedError"
    /\ UNCHANGED <<job, output_csv, columns, plan, chunks, chunk_idx,
                   interrupted_at>>

\* lines 97-101: progress_callback(0, error_msg); raise Exception(error_msg).
\* A callback that raises here replaces the Exception by its own.
ExceptException ==
    /\ pc = "except_Exception"
    /\ UNCHANGED beside_exporter
    /\ progress_calls' = Append(progress_calls, Pct(0, 1))
    /\ pc' = "done"
    /\ \E interrupt \in BOOLEAN :
         result' = IF interrupt THEN "InterruptedError" ELSE "Exception"
    /\ UNCHANGED <<job, output_csv, columns, plan, chunks, chunk_idx,
                   interrupted_at>>

NextExporter ==
    \/ Initializing
    \/ Analyzing
    \/ Preparing
    \/ Validating
    \/ Chunking
    \/ Writing
    \/ Finalizing
    \/ Complete
    \/ ExceptInterruptedError
    \/ ExceptException


\* An export_to_csv call that is not running.
IdleExporter ==
    /\ dataset = [kind |-> "frame", nrows |-> 0]
    /\ columns_arg = <<>>
    /\ rows = [none |-> TRUE, list |-> <<>>]
    /\ chunk_size = 1
    /\ csv_before = NoFile
    /\ output_csv = NoFile
    /\ pc = "idle"
    /\ columns = <<>>
    /\ row_indices = <<>>
    /\ total_rows_to_export = 0
    /\ is_continuous_slice = FALSE
    /\ chunks = <<>>
    /\ chunk_idx = 0
    /\ progress_calls = <<>>
    /\ result = "idle"
    /\ interrupted_at = -1

\* ----------------------------------------------- ExportWindow: the export
MaxSmall == 2      \* rows of a small dataset opened in the export window
MaxExtra == 1      \* extra 50k-row chunks of a large dataset

\* line 706: `if len(data_df) > 100000`; line 723: chunk_size = 50000
LargeThreshold == 100000
LargeChunk == 50000

\* Row counts on both sides of the threshold and of the chunk boundaries.
WindowRowCounts ==
    (0..MaxSmall)
    \cup {LargeThreshold}
    \cup {LargeThreshold + LargeChunk * j + 1 : j \in 0..MaxExtra}

WindowDatasets ==
    [kind : {"frame"}, nrows : WindowRowCounts]
    \cup {[kind |-> "array", nrows |-> 1]}

\* The texts a user types into the row-selection entry, and the
\* placeholder the entry holds when it was never focused.
Alphabet == {"1", "2", "3", "-", ",", " ", "x"}

EntryTexts == UNION {[1..n -> Alphabet] : n \in 0..MaxLen} \cup {Placeholder}

ColumnSelections == {<<>>, <<"b", "a">>}

\* A DataFrame of the worker: the dataset rows lo .. hi-1 (ranged), or the
\* rows listed in idx.
RangeFrame(lo, hi) ==
    [ranged |-> TRUE, lo |-> lo, hi |-> IF hi < lo THEN lo ELSE hi,
     idx |-> <<>>, cols |-> DsColumns]
ListFrame(idx) ==
    [ranged |-> FALSE, lo |-> 0, hi |-> 0, idx |-> idx, cols |-> DsColumns]
NoFrame == [ranged |-> TRUE, lo |-> 0, hi |-> 0, idx |-> <<>>, cols |-> <<>>]

FrameLen(df) == IF df.ranged THEN df.hi - df.lo ELSE Len(df.idx)

\* The content of the window's CSV file is a sequence of segments: a header
\* line, the lines of the dataset rows lo .. hi-1, or foreign content.
HeaderSeg(cols) == [kind |-> "header", cols |-> cols, lo |-> 0, hi |-> 0]
RowsSeg(cols, lo, hi) == [kind |-> "rows", cols |-> cols, lo |-> lo, hi |-> hi]
OldSeg == [kind |-> "old", cols |-> <<>>, lo |-> 0, hi |-> 0]

WindowInitialFiles == {[exists |-> FALSE, segs |-> <<>>],
                       [exists |-> TRUE, segs |-> <<OldSeg>>]}

SegLines(g) == IF g.kind = "rows" THEN g.hi - g.lo ELSE 1

RECURSIVE SegsSize(_)
SegsSize(segs) ==
    IF segs = <<>> THEN 0 ELSE SegLines(Head(segs)) + SegsSize(Tail(segs))

\* df.iloc[i:j] written with header=False: the segments of its lines
FrameSegs(df, i, j) ==
    IF j <= i THEN <<>>
    ELSE IF df.ranged THEN <<RowsSeg(df.cols, df.lo + i, df.lo + j)>>
    ELSE [k \in 1..(j - i) |->
            RowsSeg(df.cols, df.idx[i + k], df.idx[i + k] + 1)]

\* read_dataset(path, slice_rows=(start, end)) on a group
WindowReadSlice(node, start, end) ==
    RangeFrame(start, Min2(end, node.nrows))

\* read_dataset(path) on a group
WindowReadAll(node) == RangeFrame(0, node.nrows)

\* lines 664-666 of _export_worker
WorkerIsContinuous(l) == Len(l) > 0 /\ AllConsecutive(l)

\* One queued Tk callback.
AfterCall(fn, pct, text) == [fn |-> fn, pct |-> pct, text |-> text]

NoBox == [title |-> "", text |-> ""]

\* An export window that is not open.
IdleWindow ==
    /\ row_selection_string = <<>>
    /\ selected_columns = <<>>
    /\ h5_node = [kind |-> "frame", nrows |-> 0]
    /\ csv_file = [exists |-> FALSE, segs |-> <<>>]
    /\ ui = "closed"
    /\ attempt = "none"
    /\ message_box = NoBox
    /\ rows_to_export = [none |-> TRUE, err |-> "", rows |-> <<>>]
    /\ cancel_export = FALSE
    /\ worker = "none"
    /\ data_df = NoFrame
    /\ next_row = 0
    /\ after_queue = <<>>
    /\ progress_var = Pct(0, 1)
    /\ status_label = ""
    /\ csv_at_call = csv_file
    /\ h5_reads = 0
    /\ chunks_written = 0
    /\ cancelled_after = -1

\* The export window once its columns are loaded: the user has ticked
\* columns and typed (or left) the row selection.
InitWindow ==
    /\ row_selection_string \in EntryTexts
    /\ selected_columns \in ColumnSelections
    /\ h5_node \in WindowDatasets
    /\ csv_file \in WindowInitialFiles
    /\ ui = "form"
    /\ attempt = "none"
    /\ message_box = NoBox
    /\ rows_to_export = [none |-> TRUE, err |-> "", rows |-> <<>>]
    /\ cancel_export = FALSE
    /\ worker = "none"
    /\ data_df = NoFrame
    /\ next_row = 0
    /\ after_queue = <<>>
    /\ progress_var = Pct(0, 1)
    /\ status_label = ""
    /\ csv_at_call = csv_file
    /\ h5_reads = 0
    /\ chunks_written = 0
    /\ cancelled_after = -1

\* `rows_to_export == []`: the parser's error value
IsParseError(r) == ~r.none /\ r.rows = <<>>

\* _export_csv (the Export CSV button), down to _show_export_progress.
\* confirm: the answer to Messagebox.okcancel; path_given: whether the save
\* dialog returned a path.  Message boxes are modal: an earlier one was
\* dismissed before the button could be pressed.
ExportCsv ==
    /\ ui = "form"
    /\ UNCHANGED beside_window
    /\ csv_at_call' = csv_file
    /\ h5_reads' = 0
    /\ LET parsed == parse_row_selection(row_selection_string)
       IN  IF selected_columns = <<>>
           THEN /\ attempt' = "no_columns"
                /\ message_box' = [title |-> "No Columns Selected",
                                   text |-> ""]
                /\ UNCHANGED <<ui, rows_to_export, cancel_export, worker,
                               progress_var, status_label, chunks_written,
                               cancelled_after>>
           ELSE IF IsParseError(parsed)
           THEN /\ attempt' = "input_error"
                /\ message_box' = [title |-> "Input Error",
                                   text |-> parsed.err]
                /\ UNCHANGED <<ui, rows_to_export, cancel_export, worker,
                               progress_var, status_label, chunks_written,
                               cancelled_after>>
           ELSE \E confirm \in BOOLEAN, path_given \in BOOLEAN :
                  IF ~confirm \/ ~path_given
                  THEN /\ attempt' = "declined"
                       /\ message_box' = NoBox
                       /\ UNCHANGED <<ui, rows_to_export,
                                      cancel_export, worker, progress_var,
                                      status_label, chunks_written,
                                      cancelled_after>>
                  ELSE /\ attempt' = "started"
                       /\ ui' = "progress"
                       /\ rows_to_export' = parsed
                       /\ cancel_export' = FALSE
                       /\ worker' = "start"
                       /\ progress_var' = Pct(0, 1)
                       /\ status_label' = "Initializing export..."
                       /\ chunks_written' = 0
                       /\ cancelled_after' = -1
                       /\ message_box' = NoBox
    /\ UNCHANGED <<row_selection_string, selected_columns, h5_node, csv_file,
                   data_df, next_row, after_queue>>

\* _cancel_export (the Cancel button of the progress dialog)
CancelExport ==
    /\ ui = "progress"
    /\ UNCHANGED beside_window
    /\ cancel_export' = TRUE
    /\ status_label' = "Cancelling export..."
    /\ cancelled_after' = IF cancel_export THEN cancelled_after
                          ELSE chunks_written
    /\ UNCHANGED <<row_selection_string, selected_columns, h5_node, csv_file,
                   ui, attempt, message_box, rows_to_export, worker, data_df,
                   next_row, after_queue, progress_var, csv_at_call, h5_reads,
                   chunks_written>>

\* The Tk main loop runs the oldest queued callback: a status text,
\* _update_progress, _export_success or _export_error.
RunAfter ==
    /\ after_queue # <<>>
    /\ UNCHANGED beside_window
    /\ after_queue' = Tail(after_queue)
    /\ LET call == Head(after_queue)
       IN  CASE call.fn = "status" /\ ui = "progress" ->
                  /\ status_label' = call.text
                  /\ UNCHANGED <<ui, message_box, progress_var>>
             [] call.fn = "progress" /\ ui = "progress" ->
                  /\ progress_var' = call.pct
                  /\ status_label' = call.text
                  /\ UNCHANGED <<ui, message_box>>
             [] call.fn = "success" ->
                  /\ ui' = "closed"
                  /\ message_box' = [title |-> "Export Complete",
                                     text |-> "Dataset exported successfully!"]
                  /\ UNCHANGED <<progress_var, status_label>>
             [] call.fn = "error" ->
                  /\ ui' = "form"
                  /\ message_box' = [title |-> "Export Error",
                                     text |-> call.text]
                  /\ UNCHANGED <<progress_var, status_label>>
             [] OTHER ->
                  UNCHANGED <<ui, message_box, progress_var, status_label>>
    /\ UNCHANGED <<row_selection_string, selected_columns, h5_node, csv_file,
                   attempt, rows_to_export, cancel_export, worker, data_df,
                   next_row, csv_at_call, h5_reads, chunks_written,
                   cancelled_after>>

\* What no step of the worker thread changes.
not_worker == <<row_selection_string, selected_columns, h5_node, ui, attempt,
                message_box, rows_to_export, cancel_export, progress_var,
                status_label, csv_at_call, cancelled_after>>

\* self.dialog.after(0, ...)
After(call) == after_queue' = Append(after_queue, call)

\* lines 654-659
WorkerStart ==
    /\ worker = "start"
    /\ UNCHANGED <<beside_window, not_worker>>
    /\ after_queue' = after_queue
          \o <<AfterCall("status", Pct(0, 1), "Reading dataset..."),
               AfterCall("progress", Pct(10, 1),
                         "Loading data from HDF5 file...")>>
    /\ worker' = IF cancel_export THEN "ended" ELSE "read"
    /\ UNCHANGED <<csv_file, data_df, next_row, h5_reads, chunks_written>>

\* lines 662-675 and 681: the read_dataset call, which can fail
WorkerRead ==
    /\ worker = "read"
    /\ UNCHANGED <<beside_window, not_worker>>
    /\ h5_reads' = h5_reads + 1
    /\ \E read_fails \in BOOLEAN :
         IF read_fails
         THEN worker' = "except" /\ UNCHANGED data_df
         ELSE IF ~rows_to_export.none /\ Len(rows_to_export.rows) > 0
         THEN IF WorkerIsContinuous(rows_to_export.rows)
              THEN /\ data_df' = WindowReadSlice(h5_node,
                                       SeqMin(rows_to_export.rows),
                                       SeqMax(rows_to_export.rows) + 1)
                   /\ worker' = "check_read"
              ELSE /\ data_df' = WindowReadAll(h5_node)
                   /\ worker' = "filter"
         ELSE /\ data_df' = WindowReadAll(h5_node)
              /\ worker' = "check_read"
    /\ UNCHANGED <<csv_file, next_row, after_queue, chunks_written>>

\* lines 676-678: data_df.iloc[rows_to_export] unless cancelled.  A numpy
\* array has no iloc; iloc raises on an index past the last row.
WorkerFilter ==
    /\ worker = "filter"
    /\ UNCHANGED <<beside_window, not_worker>>
    /\ IF cancel_export
       THEN worker' = "check_read" /\ UNCHANGED <<data_df, after_queue>>
       ELSE /\ After(AfterCall("progress", Pct(30, 1),
                               "Filtering selected rows..."))
            /\ IF h5_node.kind = "array"
                  \/ \E i \in 1..Len(rows_to_export.rows) :
                        rows_to_export.rows[i] >= FrameLen(data_df)
               THEN worker' = "except" /\ UNCHANGED data_df
               ELSE /\ data_df' = ListFrame(rows_to_export.rows)
                    /\ worker' = "check_read"
    /\ UNCHANGED <<csv_file, next_row, h5_reads, chunks_written>>

\* lines 683-698
WorkerCheckRead ==
    /\ worker = "check_read"
    /\ UNCHANGED <<beside_window, not_worker>>
    /\ IF cancel_export
       THEN worker' = "ended" /\ UNCHANGED <<data_df, after_queue>>
       ELSE IF h5_node.kind = "array"
       THEN worker' = "except" /\ UNCHANGED <<data_df, after_queue>>
       ELSE /\ After(AfterCall("progress", Pct(50, 1),
                               "Filtering selected columns..."))
            /\ data_df' = [data_df EXCEPT
                             !.cols = ExistingColumns(selected_columns, @)]
            /\ worker' = "check_columns"
    /\ UNCHANGED <<csv_file, next_row, h5_reads, chunks_written>>

\* lines 700-706
WorkerCheckColumns ==
    /\ worker = "check_columns"
    /\ UNCHANGED <<beside_window, not_worker>>
    /\ IF cancel_export
       THEN worker' = "ended" /\ UNCHANGED after_queue
       ELSE /\ After(AfterCall("progress", Pct(70, 1), "Writing CSV file..."))
            /\ worker' = IF FrameLen(data_df) > LargeThreshold
                         THEN "large_open" ELSE "to_csv"
    /\ UNCHANGED <<csv_file, data_df, next_row, h5_reads, chunks_written>>

\* lines 709-710: data_df.to_csv(output_path, index=False)
WorkerToCsv ==
    /\ worker = "to_csv"
    /\ UNCHANGED <<beside_window, not_worker>>
    /\ csv_file' = [exists |-> TRUE,
                    segs |-> <<HeaderSeg(data_df.cols)>>
                             \o FrameSegs(data_df, 0, FrameLen(data_df))]
    /\ After(AfterCall("progress", Pct(100, 1),
                       "Export completed successfully!"))
    /\ worker' = "finish"
    /\ UNCHANGED <<data_df, next_row, h5_reads, chunks_written>>

\* _export_large_csv lines 723-728: open(output_path, 'w') and the header
LargeOpen ==
    /\ worker = "large_open"
    /\ UNCHANGED <<beside_window, not_worker>>
    /\ csv_file' = [exists |-> TRUE, segs |-> <<HeaderSeg(data_df.cols)>>]
    /\ next_row' = 0
    /\ worker' = "large_poll"
    /\ UNCHANGED <<data_df, after_queue, h5_reads, chunks_written>>

\* lines 731-733: the loop test and the poll of the cancel flag; a return
\* here leaves _export_large_csv for line 713 of the worker
LargePoll ==
    /\ worker = "large_poll"
    /\ UNCHANGED <<beside_window, not_worker>>
    /\ worker' = IF next_row >= FrameLen(data_df) THEN "large_end"
                 ELSE IF cancel_export THEN "finish"
                 ELSE "large_write"
    /\ UNCHANGED <<csv_file, data_df, next_row, after_queue, h5_reads,
                   chunks_written>>

\* lines 735-745: one chunk appended without header
LargeWrite ==
    /\ worker = "large_write"
    /\ UNCHANGED <<beside_window, not_worker>>
    /\ LET total_rows == FrameLen(data_df)
           end_idx == Min2(next_row + LargeChunk, total_rows)
       IN  /\ csv_file' = [csv_file EXCEPT
                             !.segs = @ \o FrameSegs(data_df, next_row, end_idx)]
           /\ After(AfterCall("progress",
                              Pct(70 * total_rows + 30 * end_idx, total_rows),
                              "Writing CSV..."))
           /\ next_row' = end_idx
    /\ chunks_written' = chunks_written + 1
    /\ worker' = "large_poll"
    /\ UNCHANGED <<data_df, h5_reads>>

\* lines 747-748
LargeEnd ==
    /\ worker = "large_end"
    /\ UNCHANGED <<beside_window, not_worker>>
    /\ IF cancel_export THEN UNCHANGED after_queue
       ELSE After(AfterCall("progress", Pct(100, 1),
                            "Export completed successfully!"))
    /\ worker' = "finish"
    /\ UNCHANGED <<csv_file, data_df, next_row, h5_reads, chunks_written>>

\* lines 713-714
WorkerFinish ==
    /\ worker = "finish"
    /\ UNCHANGED <<beside_window, not_worker>>
    /\ IF cancel_export THEN UNCHANGED after_queue
       ELSE After(AfterCall("success", Pct(0, 1), ""))
    /\ worker' = "ended"
    /\ UNCHANGED <<csv_file, data_df, next_row, h5_reads, chunks_written>>

\* lines 716-719
WorkerExcept ==
    /\ worker = "except"
    /\ UNCHANGED <<beside_window, not_worker>>
    /\ IF cancel_export THEN UNCHANGED after_queue
       ELSE After(AfterCall("error", Pct(0, 1), "Failed to export dataset"))
    /\ worker' = "ended"
    /\ UNCHANGED <<csv_file, data_df, next_row, h5_reads, chunks_written>>

NextWindow ==
    \/ ExportCsv
    \/ CancelExport
    \/ RunAfter
    \/ WorkerStart
    \/ WorkerRead
    \/ WorkerFilter
    \/ WorkerCheckRead
    \/ WorkerCheckColumns
    \/ WorkerToCsv
    \/ LargeOpen
    \/ LargePoll
    \/ LargeWrite
    \/ LargeEnd
    \/ WorkerFinish
    \/ WorkerExcept

\* ------------------------------------------------------ specifications
\* ============================================================ H5FileHandler
MaxDim == 2        \* largest extent of one dimension of a leaf array
MaxElements == 3   \* largest max_elements given to get_dataset_data

\* ---- text helpers for node and column names
\* str(n) for n >= 0
RECURSIVE Decimal(_)
Decimal(n) ==
    IF n < 10 THEN <<Digits[n + 1]>>
    ELSE Decimal(n \div 10) \o <<Digits[(n % 10) + 1]>>

\* The characters of the key names, in code-point order ('0'..'9' < '_'
\* < 'a'..'z').
CodePointOrder == Digits \o <<"_", "b", "c", "e", "i", "k", "l", "m",
                                  "o", "s", "t">>

Ord(c) == CHOOSE i \in 1..Len(CodePointOrder) : CodePointOrder[i] = c

\* s < t for Python str
RECURSIVE StrLess(_, _)
StrLess(s, t) ==
    IF t = <<>> THEN FALSE
    ELSE IF s = <<>> THEN TRUE
    ELSE IF Head(s) = Head(t) THEN StrLess(Tail(s), Tail(t))
    ELSE Ord(Head(s)) < Ord(Head(t))

\* f'Column_{i}'
ColumnName(i) == <<"C", "o", "l", "u", "m", "n", "_">> \o Decimal(i)

\* f'block{n}_items'
ItemsKey(n) == <<"b", "l", "o", "c", "k">> \o Decimal(n)
               \o <<"_", "i", "t", "e", "m", "s">>

\* ---- the objects of an HDF5 file
\* An element of a label array: a str, or bytes that decode as UTF-8 to
\* text, or bytes that do not decode.
StrItem(text) == [bytes |-> FALSE, valid |-> TRUE, text |-> text]
BytesItem(text) == [bytes |-> TRUE, valid |-> TRUE, text |-> text]
BadBytes == [bytes |-> TRUE, valid |-> FALSE, text |-> <<>>]

\* A label array (axis0 or block<N>_items): whether reading it works, the
\* kind of its dtype ('S', 'U', 'O', or 'i' for integer labels), its items.
LabelArray(readable, dkind, items) ==
    [present |-> TRUE, readable |-> readable, dkind |-> dkind, items |-> items]

NoArray == [present |-> FALSE, readable |-> FALSE, dkind |-> "S",
            items |-> <<>>]

\* The label arrays tried for a child holding the labels first, second:
\* fixed-length bytes, an object array, an object array with an entry that
\* is not UTF-8 in the middle, a bytes array with such an entry, integer
\* labels, and an array whose read fails.
LabelArrays(first, second) ==
    {LabelArray(TRUE, "S", <<BytesItem(first), BytesItem(second)>>),
     LabelArray(TRUE, "O", <<BytesItem(first), StrItem(second)>>),
     LabelArray(TRUE, "O", <<BytesItem(first), BadBytes, StrItem(second)>>),
     LabelArray(TRUE, "S", <<BytesItem(first), BadBytes>>),
     LabelArray(TRUE, "i", <<>>),
     LabelArray(FALSE, "S", <<BytesItem(first)>>)}

\* The numbers N of the block<N>_items children a group may have.
BlockNumbers == {1, 2, 10}

BlockLabels(n) == LabelArrays(<<"c">> \o Decimal(n), <<"d">> \o Decimal(n))

Axis0Labels == LabelArrays(<<"a">>, <<"b">>)

\* The table pandas.read_hdf reconstructs from a group, if it can.
NoTable == [readable |-> FALSE, nrows |-> 0, ncols |-> 0]
PandasTables == {NoTable}
                \cup [readable : {TRUE}, nrows : {0, MaxDim}, ncols : {2}]

\* The shapes of the block<N>_values children of a group.
ValueShapes == {<<>>, <<<<MaxDim, 1>>>>, <<<<1>>, <<MaxDim, 2>>>>}

FieldLists == {<<<<"x">>>>, <<<<"y">>, <<"x">>>>}

NoFields == [structured |-> FALSE, names |-> <<>>]
Fields(names) == [structured |-> TRUE, names |-> names]

Shapes == UNION {[1..n -> 0..MaxDim] : n \in 1..3}

Node(type, shape, fields, axis0, items, values, table) ==
    [type |-> type, shape |-> shape, fields |-> fields, axis0 |-> axis0,
     items |-> items, values |-> values, table |-> table]

\* h5py.Dataset
Leaves ==
    {Node("dataset", sh, fl, NoArray, <<>>, <<>>, NoTable) :
        sh \in Shapes, fl \in {NoFields} \cup {Fields(l) : l \in FieldLists}}

\* h5py.Group; items maps the N of each block<N>_items child to its array
Groups ==
    {Node("group", <<>>, NoFields, a0, it, vs, tb) :
        a0 \in {NoArray} \cup Axis0Labels,
        it \in UNION {{f \in [S -> UNION {BlockLabels(n) : n \in S}] :
                          \A n \in S : f[n] \in BlockLabels(n)} :
                      S \in SUBSET BlockNumbers},
        vs \in ValueShapes,
        tb \in PandasTables}

\* A path that is not in the file, and an object whose access fails.
MissingNode == Node("missing", <<>>, NoFields, NoArray, <<>>, <<>>, NoTable)
BrokenNode == Node("broken", <<>>, NoFields, NoArray, <<>>, <<>>, NoTable)

Nodes == Leaves \cup Groups \cup {MissingNode, BrokenNode}

\* ---- H5FileHandler.get_dataframe_columns
\* item.decode('utf-8') for bytes, str(item) otherwise
Decoded(item) == item.text

DecodeRaises(item) == item.bytes /\ ~item.valid

\* The items of an object array before the first one whose decoding raises
RECURSIVE DecodedPrefix(_)
DecodedPrefix(items) ==
    IF items = <<>> \/ DecodeRaises(Head(items)) THEN <<>>
    ELSE <<Decoded(Head(items))>> \o DecodedPrefix(Tail(items))

\* Reading the array and decoding its items raises
CollectRaises(arr) ==
    \/ ~arr.readable
    \/ /\ arr.dkind \in {"S", "O"}
       /\ \E i \in 1..Len(arr.items) : DecodeRaises(arr.items[i])

\* lines 186-197 and 210-220: the labels added to the list by one array.
\* The list comprehension of the 'S' branch adds all labels or none; the
\* loop of the 'O' branch has added the labels before the item that raises.
Collected(arr) ==
    IF ~arr.readable THEN <<>>
    ELSE IF arr.dkind = "S"
    THEN IF CollectRaises(arr) THEN <<>>
         ELSE [i \in 1..Len(arr.items) |-> Decoded(arr.items[i])]
    ELSE IF arr.dkind = "U"
    THEN [i \in 1..Len(arr.items) |-> Decoded(arr.items[i])]
    ELSE IF arr.dkind = "O" THEN DecodedPrefix(arr.items)
    ELSE <<>>

\* line 207: sorted(group.keys()), as the N of the block<N>_items keys
SortedKeys(numbers) ==
    SortSeq(SortedOfSet(numbers),
            LAMBDA a, b : StrLess(ItemsKey(a), ItemsKey(b)))

RECURSIVE ConcatLabels(_, _)
ConcatLabels(items, keys) ==
    IF keys = <<>> THEN <<>>
    ELSE Collected(items[Head(keys)]) \o ConcatLabels(items, Tail(keys))

\* lines 205-223
BlockItemColumns(node) ==
    ConcatLabels(node.items, SortedKeys(DOMAIN node.items))

\* lines 174-234.  The list built from axis0 is returned on line 200 only,
\* inside the try; every path after it returns block_item_columns or [].
get_dataframe_columns(node) ==
    IF node.type # "group" THEN <<>>
    ELSE IF /\ node.axis0.present
            /\ ~CollectRaises(node.axis0)
            /\ Collected(node.axis0) # <<>>
    THEN Collected(node.axis0)
    ELSE IF BlockItemColumns(node) # <<>> THEN BlockItemColumns(node)
    ELSE <<>>

\* ---- H5FileHandler.get_dataset_info
Raised == [raised |-> TRUE, value |-> <<>>]
Returned(v) == [raised |-> FALSE, value |-> v]

RECURSIVE Product(_)
Product(shape) ==
    IF shape = <<>> THEN 1 ELSE Head(shape) * Product(Tail(shape))

Max2(a, b) == IF a > b THEN a ELSE b

\* lines 127-134: max of shape[0] over the block<N>_values children
RECURSIVE InferredRows(_)
InferredRows(values) ==
    IF values = <<>> THEN 0
    ELSE Max2(IF Len(Head(values)) > 0 THEN Head(values)[1] ELSE 0,
              InferredRows(Tail(values)))

\* info['shape'] is a tuple, or the text 'Inferred'
ShapeTuple(dims) == [tuple |-> TRUE, dims |-> dims]
ShapeInferred == [tuple |-> FALSE, dims |-> <<>>]

Info(shape, cols) == [shape |-> shape, columns |-> cols]

\* LeafColumns without the dtype test of line 109: a 2-D array gets
\* generic names whatever its dtype.
LeafColumnsByShape(node) ==
    IF Len(node.shape) = 2
    THEN [i \in 1..node.shape[2] |-> ColumnName(i - 1)]
    ELSE IF node.fields.structured THEN node.fields.names
    ELSE <<>>

\* LeafColumns naming one generic column per row (shape[0]) instead of
\* one per column (shape[1]).
LeafColumnsPerRow(node) ==
    IF Len(node.shape) = 2 /\ ~node.fields.structured
    THEN [i \in 1..node.shape[1] |-> ColumnName(i - 1)]
    ELSE IF node.fields.structured THEN node.fields.names
    ELSE <<>>

\* lines 109-112
LeafColumns(node) ==
    IF Len(node.shape) = 2 /\ ~node.fields.structured
    THEN [i \in 1..node.shape[2] |-> ColumnName(i - 1)]
    ELSE IF node.fields.structured THEN node.fields.names
    ELSE <<>>

\* lines 139-148
GroupShape(inferred_rows, inferred_cols) ==
    IF inferred_rows > 0
    THEN IF inferred_cols > 0
         THEN ShapeTuple(<<inferred_rows, inferred_cols>>)
         ELSE ShapeTuple(<<inferred_rows>>)
    ELSE ShapeInferred

\* get_dataset_info returning its initial info dictionary where lines 91
\* and 158 raise.
get_dataset_info_quiet(node) ==
    IF node.type \in {"missing", "broken"}
    THEN Returned(Info(ShapeInferred, <<>>))
    ELSE IF node.type = "dataset"
    THEN Returned(Info(ShapeTuple(node.shape), LeafColumns(node)))
    ELSE Returned(Info(GroupShape(InferredRows(node.values),
                                  Len(get_dataframe_columns(node))),
                       get_dataframe_columns(node)))

\* lines 75-159
get_dataset_info(node) ==
    IF node.type \in {"missing", "broken"} THEN Raised
    ELSE IF node.type = "dataset"
    THEN Returned(Info(ShapeTuple(node.shape), LeafColumns(node)))
    ELSE Returned(Info(GroupShape(InferredRows(node.values),
                                  Len(get_dataframe_columns(node))),
                       get_dataframe_columns(node)))

\* ---- H5FileHandler.get_dataset_data
Sample(kind, shape, is_truncated) ==
    [kind |-> kind, shape |-> shape, is_truncated |-> is_truncated]

\* obj[:k] along the first axis
FirstRows(shape, k) == [shape EXCEPT ![1] = Min2(k, shape[1])]

\* line 310: max_elements//obj.shape[1] if obj.shape[1] > 0 else 1
SampleRows(shape, max_elements) ==
    IF shape[2] > 0 THEN max_elements \div shape[2] ELSE 1

\* lines 296-332
get_dataset_data(node, max_elements) ==
    IF node.type \in {"missing", "broken"} THEN Raised
    ELSE IF node.type = "dataset"
    THEN IF Product(node.shape) > max_elements
         THEN IF Len(node.shape) = 1
              THEN Returned(Sample("array", FirstRows(node.shape,
                                                      max_elements), TRUE))
              ELSE IF Len(node.shape) = 2
              THEN Returned(Sample("array",
                                   FirstRows(node.shape,
                                             SampleRows(node.shape,
                                                        max_elements)),
                                   TRUE))
              ELSE Returned(Sample("flat",
                                   <<Min2(max_elements,
                                          Product(node.shape))>>, TRUE))
         ELSE Returned(Sample("array", node.shape, FALSE))
    ELSE IF node.table.readable
    THEN Returned(Sample("frame",
                         <<Min2(node.table.nrows, max_elements),
                           node.table.ncols>>,
                         Min2(node.table.nrows, max_elements)
                            * node.table.ncols > max_elements))
    ELSE Returned(Sample("text", <<>>, FALSE))

\* ---- ExportWindow._load_columns_safely
\* sample_data.columns.tolist(): the column labels of the table that
\* pandas.read_hdf reconstructs
TableColumns(tb) == SubSeq(<<<<"a">>, <<"b">>>>, 1, tb.ncols)

\* ui/export_window.py lines 232-258 (load_columns_thread): the list passed
\* to _on_columns_loaded, or the error passed to _on_columns_load_error.
\* The fallback read_dataset(slice_rows=(0, 1)) gives a DataFrame for a
\* group pandas can read, an ndarray for a leaf, and raises otherwise.
load_columns(node) ==
    IF get_dataset_info(node).raised THEN Raised
    ELSE IF get_dataset_info(node).value.columns # <<>>
    THEN Returned(get_dataset_info(node).value.columns)
    ELSE IF node.type = "group" /\ node.table.readable
    THEN Returned(TableColumns(node.table))
    ELSE Returned(<<>>)

\* ---- calls of the handler
NoCall == [name |-> "none", max_elements |-> 0]

IdleHandler ==
    /\ obj = MissingNode
    /\ op = NoCall
    /\ ret = Raised

InitHandler ==
    /\ obj \in Nodes
    /\ op = NoCall
    /\ ret = Raised

CallGetDatasetInfo ==
    /\ op' = [name |-> "get_dataset_info", max_elements |-> 0]
    /\ ret' = get_dataset_info(obj)
    /\ UNCHANGED <<obj, beside_handler>>

CallGetDataframeColumns ==
    /\ op' = [name |-> "get_dataframe_columns", max_elements |-> 0]
    /\ ret' = Returned(get_dataframe_columns(obj))
    /\ UNCHANGED <<obj, beside_handler>>

CallGetDatasetData ==
    /\ \E max_elements \in 0..MaxElements :
         /\ op' = [name |-> "get_dataset_data", max_elements |-> max_elements]
         /\ ret' = get_dataset_data(obj, max_elements)
    /\ UNCHANGED <<obj, beside_handler>>

\* ExportWindow._load_columns_safely run to the end of its thread
LoadColumnsSafely ==
    /\ op' = [name |-> "load_columns", max_elements |-> 0]
    /\ ret' = load_columns(obj)
    /\ UNCHANGED <<obj, beside_handler>>

NextHandler ==
    \/ CallGetDatasetInfo
    \/ CallGetDataframeColumns
    \/ CallGetDatasetData
    \/ LoadColumnsSafely

\* ============================================ SpecificInstanceExportWindow
MaxScanRows == 2   \* rows of a small dataset searched for a value
MaxScanExtra == 1  \* extra 50k-row chunks of a large dataset searched

\* line 498 and line 500: total_rows = 1000000  # Default fallback
DefaultTotalRows == 1000000

\* lines 505-512
AdaptiveChunkSize(n) ==
    IF n > 10000000 THEN 500000
    ELSE IF n > 1000000 THEN 100000
    ELSE IF n > 100000 THEN 50000
    ELSE n

\* The row counts of the datasets searched: small ones, the largest one
\* scanned in one chunk, and the ones scanned in 50000-row chunks with one
\* row in the last chunk.
ScanRowCounts ==
    (0..MaxScanRows) \cup {100000}
    \cup {100000 + 50000 * j + 1 : j \in 0..MaxScanExtra}

\* The rows that may hold the value looked for: the first rows and the
\* rows around the first chunk boundaries.
HitRows(n) == {r \in {0, 1, 49999, 50000, 100000} : r < n}

\* The dataset: its kind and row count as for export_to_csv, and the rows
\* (hits) whose values differ from the filler value of their column.
ScanNodes ==
    UNION {[kind : {"frame", "table", "array"}, nrows : {n},
            hits : {h \in SUBSET HitRows(n) : Cardinality(h) <= 2}] :
           n \in ScanRowCounts}

\* The columns of the table: "n" holds integers (a numeric dtype), "s"
\* holds strings.  "q" is a column name the table read does not have and
\* "" stands for no column selected.
ScanColumns == {"n", "s"}
ColumnChoices == ScanColumns \cup {"q", ""}

\* Column "n" holds 1 in the hit rows and 0 elsewhere, column "s" holds
\* "1" in the hit rows and "x" elsewhere.
ValueAt(node, col, i) ==
    IF col = "n" THEN (IF i \in node.hits THEN 1 ELSE 0)
    ELSE (IF i \in node.hits THEN <<"1">> ELSE <<"x">>)

\* The texts typed into the value entry.  None of them matches the filler
\* value of a column ("0" as a number, "x"), so the matching rows of a
\* range are among its hit rows.
ValueTexts == {<<>>, <<"1">>, <<" ", "1">>, <<"0", "1">>, <<"2">>,
               <<"a", "b", "c">>}

\* pd.api.types.is_numeric_dtype(column_data)
IsNumericColumn(col) == col = "n"

\* pd.to_numeric(text) raises ValueError for a text that is not a number
ToNumericRaises(text) == IntRaises(text)
ToNumeric(text) == IntOf(text)

\* lines 563-573: the mask of one value
CellMatches(col, v, target) ==
    IF IsNumericColumn(col)
    THEN IF ~ToNumericRaises(target) THEN v = ToNumeric(target)
         ELSE Decimal(v) = target
    ELSE v = target

\* line 576: chunk_data[mask] for the chunk holding the rows lo .. hi - 1,
\* as the list of its row numbers in order
ChunkMatches(node, col, target, lo, hi) ==
    SortedOfSet({i \in node.hits :
                    /\ lo <= i /\ i < hi
                    /\ CellMatches(col, ValueAt(node, col, i), target)})

\* read_dataset of a table: the half-open range of the rows returned
RowRange(lo, hi) == [lo |-> lo, hi |-> hi]

ScanReadSlice(node, start, end) ==
    RowRange(Min2(start, node.nrows), Min2(end, node.nrows))

ScanReadAll(node) == RowRange(0, node.nrows)

\* read_dataset returns a DataFrame for a group, a numpy array for a leaf
ReadIsDataFrame(node) == node.kind \in {"frame", "table"}

\* A SpecificInstanceExportWindow that is not open.
IdleSearch ==
    /\ scan_node = [kind |-> "frame", nrows |-> 0, hits |-> {}]
    /\ value_var = <<>>
    /\ selected_column = ""
    /\ search_value = <<>>
    /\ scan_pc = "idle"
    /\ scan_total_rows = 0
    /\ scan_chunk_size = 0
    /\ start_row = 0
    /\ chunks_processed = 0
    /\ total_matches = 0
    /\ filtered_df = <<>>
    /\ preview_status = "ready"
    /\ matches_shown = <<>>
    /\ scanned = <<>>

\* The window with a column chosen and a value typed, before Search.
InitSearch ==
    /\ scan_node \in ScanNodes
    /\ value_var \in ValueTexts
    /\ selected_column \in ColumnChoices
    /\ search_value = <<>>
    /\ scan_pc = "ready"
    /\ scan_total_rows = 0
    /\ scan_chunk_size = 0
    /\ start_row = 0
    /\ chunks_processed = 0
    /\ total_matches = 0
    /\ filtered_df = <<>>
    /\ preview_status = "ready"
    /\ matches_shown = <<>>
    /\ scanned = <<>>

scan_locals == <<scan_total_rows, scan_chunk_size, start_row, chunks_processed,
                 total_matches, filtered_df, matches_shown, scanned>>

\* _search_for_matches (lines 431-437) and the start of _update_preview
\* (lines 451-475)
SearchForMatches ==
    /\ scan_pc = "ready"
    /\ search_value' = Strip(value_var)
    /\ IF Strip(value_var) = <<>>
       THEN scan_pc' = "done" /\ preview_status' = "ready"
       ELSE IF selected_column = ""
       THEN scan_pc' = "done" /\ preview_status' = "select_column"
       ELSE scan_pc' = "sizing" /\ preview_status' = "searching"
    /\ UNCHANGED <<scan_node, value_var, selected_column, scan_locals,
                   beside_search>>

\* lines 484-520: the row count, the chunk size and the chunk count.  The
\* reads of lines 492 and 495 can fail, which line 499 catches; the
\* division of line 520 raises ZeroDivisionError when chunk_size is 0,
\* which line 646 catches.
ScanSize ==
    /\ scan_pc = "sizing"
    /\ \E read_fails \in BOOLEAN :
         LET rows_found ==
                 IF ShapeIsTuple(scan_node) THEN scan_node.nrows
                 ELSE IF read_fails THEN DefaultTotalRows
                 ELSE IF ReadIsDataFrame(scan_node) THEN scan_node.nrows
                 ELSE DefaultTotalRows
         IN  /\ scan_total_rows' = rows_found
             /\ scan_chunk_size' = AdaptiveChunkSize(rows_found)
             /\ IF AdaptiveChunkSize(rows_found) = 0
                THEN scan_pc' = "done" /\ preview_status' = "error"
                ELSE /\ scan_pc' = "scanning"
                     /\ UNCHANGED preview_status
    /\ filtered_df' = <<>>
    /\ total_matches' = 0
    /\ chunks_processed' = 0
    /\ start_row' = 0
    /\ UNCHANGED <<scan_node, value_var, selected_column, search_value,
                   matches_shown, scanned, beside_search>>

\* lines 525-600: one iteration of the chunk loop; with no chunk left,
\* lines 603-644.
ScanChunk ==
    /\ scan_pc = "scanning"
    /\ start_row < scan_total_rows
    /\ \E read_fails \in BOOLEAN :
         LET end_row == Min2(start_row + scan_chunk_size, scan_total_rows)
             chunk_data == IF start_row = 0 /\ end_row >= scan_total_rows
                           THEN ScanReadAll(scan_node)
                           ELSE ScanReadSlice(scan_node, start_row, end_row)
             skipped == \/ read_fails
                        \/ ~ReadIsDataFrame(scan_node)
                        \/ selected_column \notin ScanColumns
             chunk_matches == ChunkMatches(scan_node, selected_column,
                                           search_value, chunk_data.lo,
                                           chunk_data.hi)
         IN  IF skipped
             THEN UNCHANGED <<filtered_df, total_matches, matches_shown,
                              scanned>>
             ELSE /\ filtered_df' = filtered_df \o chunk_matches
                  /\ total_matches' = total_matches + Len(chunk_matches)
                  /\ matches_shown' =
                        Append(matches_shown,
                               total_matches + Len(chunk_matches))
                  /\ scanned' = Append(scanned, chunk_data)
    /\ chunks_processed' = chunks_processed + 1
    /\ start_row' = start_row + scan_chunk_size
    /\ UNCHANGED <<scan_node, value_var, selected_column, search_value,
                   scan_pc, scan_total_rows, scan_chunk_size, preview_status,
                   beside_search>>

\* lines 603-644: the final results
ScanFinal ==
    /\ scan_pc = "scanning"
    /\ start_row >= scan_total_rows
    /\ scan_pc' = "done"
    /\ preview_status' = IF Len(filtered_df) = 0 THEN "no_matches"
                         ELSE "ready_to_export"
    /\ UNCHANGED <<scan_node, value_var, selected_column, search_value,
                   scan_locals, beside_search>>

NextSearch ==
    \/ SearchForMatches
    \/ ScanSize
    \/ ScanChunk
    \/ ScanFinal

\* ================================== MainWindow, FileUpload and DatasetList
MaxListed == 2     \* objects in the first HDF5 file on disk

\* Python None for a file path
NoPath == <<"N", "o", "n", "e">>

\* ---- the files on disk
\* The objects a file holds: a plain 2-D leaf with rows, one without rows,
\* a pandas group with labels and values, one whose shape is 'Inferred',
\* one whose labels cannot be read, and one without block<N>_items.
StoredNodes ==
    {Node("dataset", <<MaxDim, 2>>, NoFields, NoArray, <<>>, <<>>, NoTable),
     Node("dataset", <<0, 2>>, NoFields, NoArray, <<>>, <<>>, NoTable),
     Node("group", <<>>, NoFields, NoArray,
          (1 :> LabelArray(TRUE, "S", <<BytesItem(<<"c">>)>>)),
          <<<<MaxDim, 1>>>>, NoTable),
     Node("group", <<>>, NoFields, NoArray,
          (1 :> LabelArray(TRUE, "S", <<BytesItem(<<"c">>)>>)),
          <<>>, NoTable),
     Node("group", <<>>, NoFields, NoArray,
          (1 :> LabelArray(FALSE, "S", <<>>)), <<>>, NoTable),
     Node("group", <<>>, NoFields,
          LabelArray(TRUE, "S", <<BytesItem(<<"a">>)>>), <<>>, <<>>,
          NoTable)}

\* The paths of the objects of a file: "t1", "t2", ...
ObjectPath(i) == <<"t">> \o Decimal(i)

\* What a path on disk holds: a file that cannot be accessed, a file that
\* h5py cannot open, or an HDF5 file with the objects of its tree.
NoAccess == [access |-> FALSE, hdf5 |-> FALSE, tree |-> <<>>]
NotHdf5 == [access |-> TRUE, hdf5 |-> FALSE, tree |-> <<>>]
Hdf5File(tree) == [access |-> TRUE, hdf5 |-> TRUE, tree |-> tree]

Hdf5Files(n) ==
    {Hdf5File(tree) : tree \in UNION {[1..k -> StoredNodes] : k \in 0..n}}

\* The file names offered by the file dialog, as stem and suffix.
FileNames == {<<"a", ".h5">>, <<"b", ".H5">>, <<"c", ".csv">>}

Disks ==
    {(<<"a", ".h5">> :> first) @@ (<<"b", ".H5">> :> second)
       @@ (<<"c", ".csv">> :> NotHdf5) :
         first \in Hdf5Files(MaxListed),
         second \in {NoAccess, NotHdf5} \cup Hdf5Files(1)}

\* ---- FileUpload
\* str.lower() of a suffix
Lower(suffix) == IF suffix = ".H5" THEN ".h5" ELSE suffix

\* file_upload.py lines 116-117
validate_file_extension(name) == Lower(name[2]) \in {".h5", ".hdf5"}

\* file_upload.py lines 119-124
validate_file_access(file) == file.access

\* ---- H5FileHandler.validate_file and get_datasets
\* h5_file_handler.py lines 14-29
validate_file(file) == file.hdf5

\* h5_file_handler.py lines 46-51 (visit_func): a leaf is listed, a group
\* only if it has a block<N>_items child
Visited(node) ==
    \/ node.type = "dataset"
    \/ node.type = "group" /\ DOMAIN node.items # {}

\* h5_file_handler.py lines 31-62: the sorted paths of the listed objects
get_datasets(file) ==
    SortSeq(SelectSeq([i \in 1..Len(file.tree) |-> i],
                      LAMBDA i : Visited(file.tree[i])),
            LAMBDA i, j : StrLess(ObjectPath(i), ObjectPath(j)))

\* ---- DatasetList
\* dataset_list.py lines 184-196: has_columns and has_valid_shape
HasColumns(info) == info.columns # <<>>

HasValidShape(info) ==
    IF info.shape.tuple
    THEN Len(info.shape.dims) >= 1 /\ info.shape.dims[1] > 0
    ELSE TRUE

\* dataset_list.py lines 166-203: _is_exportable_dataframe for object i of
\* the file at current_file_path
is_exportable_dataframe(current_file_path, i) ==
    IF current_file_path = NoPath THEN FALSE
    ELSE LET info == get_dataset_info(disk[current_file_path].tree[i])
         IN  /\ ~info.raised
             /\ HasColumns(info.value)
             /\ HasValidShape(info.value)

NoDialog == [file |-> NoPath, path |-> 0, selected |-> NoPath]

IdleMain ==
    /\ disk = <<>>
    /\ upload_current_file = NoPath
    /\ main_current_file = NoPath
    /\ main_datasets = <<>>
    /\ list_datasets = <<>>
    /\ list_current_file_path = NoPath
    /\ success_buttons = {}
    /\ exportable_count = 0
    /\ main_message = ""
    /\ options_dialog = NoDialog

\* MainWindow.__init__, FileUpload.__init__ and DatasetList.__init__
InitMain ==
    /\ disk \in Disks
    /\ upload_current_file = NoPath
    /\ main_current_file = NoPath
    /\ main_datasets = <<>>
    /\ list_datasets = <<>>
    /\ list_current_file_path = NoPath
    /\ success_buttons = {}
    /\ exportable_count = 0
    /\ main_message = ""
    /\ options_dialog = NoDialog

\* dataset_list.py lines 314-338 and 205-262: update_datasets(datasets,
\* file_path) and the buttons and summary it creates
update_datasets(datasets, file_path) ==
    /\ list_datasets' = datasets
    /\ list_current_file_path' = file_path
    /\ success_buttons' =
          {datasets[k] : k \in {j \in 1..Len(datasets) :
                                  is_exportable_dataframe(file_path,
                                                          datasets[j])}}
    /\ exportable_count' =
          Cardinality({j \in 1..Len(datasets) :
                         is_exportable_dataframe(file_path, datasets[j])})

\* main_window.py lines 100-114: _on_file_uploaded(file_path);
\* update_datasets is called without a file path (line 109)
on_file_uploaded(file_path) ==
    IF ~validate_file(disk[file_path])
    THEN /\ main_message' = "Error"
         /\ UNCHANGED <<main_current_file, main_datasets, list_datasets,
                        list_current_file_path, success_buttons,
                        exportable_count>>
    ELSE /\ main_datasets' = get_datasets(disk[file_path])
         /\ main_current_file' = file_path
         /\ update_datasets(get_datasets(disk[file_path]), NoPath)
         /\ UNCHANGED main_message

\* file_upload.py lines 88-114: _select_file with a file chosen in the
\* dialog, _process_file and the callback
SelectFile ==
    /\ \E file_path \in FileNames :
         IF ~validate_file_extension(file_path)
         THEN /\ main_message' = "Invalid File"
              /\ UNCHANGED <<upload_current_file, main_current_file,
                             main_datasets, list_datasets,
                             list_current_file_path, success_buttons,
                             exportable_count>>
         ELSE IF ~validate_file_access(disk[file_path])
         THEN /\ main_message' = "Access Error"
              /\ UNCHANGED <<upload_current_file, main_current_file,
                             main_datasets, list_datasets,
                             list_current_file_path, success_buttons,
                             exportable_count>>
         ELSE /\ upload_current_file' = file_path
              /\ on_file_uploaded(file_path)
    /\ UNCHANGED <<disk, options_dialog, beside_main>>

\* file_upload.py lines 148-152: _clear_file, the command of the Clear
\* button, which is enabled while a file is shown (lines 62-68, 134)
ClearFile ==
    /\ upload_current_file # NoPath
    /\ upload_current_file' = NoPath
    /\ UNCHANGED <<disk, main_current_file, main_datasets, list_datasets,
                   list_current_file_path, success_buttons, exportable_count,
                   main_message, options_dialog, beside_main>>

\* A dataset button pressed (dataset_list.py line 231 or 240):
\* main_window.py lines 116-134, _on_dataset_selected
SelectDataset ==
    /\ \E k \in 1..Len(list_datasets) :
         IF main_current_file = NoPath
         THEN /\ main_message' = "Error"
              /\ UNCHANGED options_dialog
         ELSE /\ options_dialog' = [file |-> main_current_file,
                                    path |-> list_datasets[k],
                                    selected |-> upload_current_file]
              /\ UNCHANGED main_message
    /\ UNCHANGED <<disk, upload_current_file, main_current_file,
                   main_datasets, list_datasets, list_current_file_path,
                   success_buttons, exportable_count, beside_main>>

NextMain ==
    \/ SelectFile
    \/ ClearFile
    \/ SelectDataset

\* =========================================== ExportWindow: column list
MaxColumns == 4    \* columns of the dataset opened in the export window

\* export_window.py line 34
max_displayable_columns == 500

\* str.lower() on the letters used in column names and search texts
LowerChar(c) == CASE c = "A" -> "a" [] c = "B" -> "b" [] c = "S" -> "s"
                  [] c = "C" -> "c" [] OTHER -> c

LowerText(t) == [i \in 1..Len(t) |-> LowerChar(t[i])]

\* `t in s` for two Python strings
IsSubstring(t, s) ==
    \E i \in 0..(Len(s) - Len(t)) : SubSeq(s, i + 1, i + Len(t)) = t

\* The placeholder of the search entry, lower-cased (line 434)
SearchPlaceholder == <<"s", "e", "a", "r", "c", "h", " ", "c", "o", "l",
                       "u", "m", "n", "s", ".", ".", ".">>

\* The texts typed into the search entry
SearchTexts == {<<>>, <<"a">>, <<"B">>, <<"z">>,
                <<"S">> \o Tail(SearchPlaceholder)}

\* The columns of the dataset opened: MaxColumns of "a", "ab", "B", "b2", ...
ColumnPool == <<<<"a">>, <<"a", "b">>, <<"B">>, <<"b", "2">>, <<"c">>>>

\* lines 429-458: the columns _filter_columns passes on
FilteredColumns(all_columns, text) ==
    LET search_term == IF LowerText(text) = SearchPlaceholder THEN <<>>
                       ELSE LowerText(text)
        matching == SelectSeq(all_columns,
                              LAMBDA col : IsSubstring(search_term,
                                                       LowerText(col)))
    IN  IF search_term = <<>>
        THEN IF Len(all_columns) <= max_displayable_columns
             THEN all_columns ELSE <<>>
        ELSE IF Len(matching) > max_displayable_columns
        THEN SubSeq(matching, 1, max_displayable_columns)
        ELSE matching

\* line 465: the keys of column_selection_state whose value is true, in
\* insertion order, which is the order of df_columns (lines 293-295)
SelectedOf(all_columns, state) ==
    SelectSeq(all_columns, LAMBDA col : state[col])

\* lines 411-414 and 461-462: the state with the values of the checkbox
\* variables written into it
SavedState(state, cvars) ==
    [col \in DOMAIN state |->
        IF col \in DOMAIN cvars THEN cvars[col] ELSE state[col]]

\* lines 478-486: _select_none sets the displayed checkbox variables and
\* their entries of column_selection_state to False
NoneOfDisplayed(state, cvars) ==
    [col \in DOMAIN state |->
        IF col \in DOMAIN cvars THEN FALSE ELSE state[col]]

\* lines 468-476: _select_all_filtered_columns
AllOfDisplayed(state, cvars) ==
    [col \in DOMAIN state |->
        IF col \in DOMAIN cvars THEN TRUE ELSE state[col]]

\* lines 358-399: _populate_column_list(columns_to_display): the checkbox
\* variables it creates from the saved selection state
PopulatedVars(state, cvars, columns_to_display) ==
    [col \in SeqToSet(columns_to_display) |->
        SavedState(state, cvars)[col]]

\* An export window whose column list is not shown.
IdleSelect ==
    /\ df_columns = <<>>
    /\ column_search_var = <<>>
    /\ column_vars = <<>>
    /\ column_selection_state = <<>>

\* lines 285-337: _on_columns_loaded(columns) has run: nothing is
\* selected and every column has its checkbox.
InitSelect ==
    /\ df_columns \in {SubSeq(ColumnPool, 1, n) : n \in 1..MaxColumns}
    /\ column_search_var = <<>>
    /\ column_vars = [col \in SeqToSet(df_columns) |-> FALSE]
    /\ column_selection_state = [col \in SeqToSet(df_columns) |-> FALSE]

\* The search text changes: _filter_columns (lines 429-458) and
\* _populate_column_list (lines 358-399)
FilterColumns ==
    /\ \E text \in SearchTexts :
         /\ text # column_search_var
         /\ column_search_var' = text
         /\ IF Len(FilteredColumns(df_columns, text))
                  > max_displayable_columns
            THEN /\ column_vars' = <<>>
                 /\ UNCHANGED <<column_selection_state, selected_columns>>
            ELSE /\ column_vars' =
                       PopulatedVars(column_selection_state, column_vars,
                                     FilteredColumns(df_columns, text))
                 /\ column_selection_state' =
                       SavedState(column_selection_state, column_vars)
                 /\ selected_columns' =
                       SelectedOf(df_columns,
                                  SavedState(column_selection_state,
                                             column_vars))
    /\ UNCHANGED <<df_columns, beside_select>>

\* A checkbox is toggled: the trace of its variable runs
\* _update_selected_columns (lines 460-466)
ToggleColumn ==
    /\ \E col \in DOMAIN column_vars :
         LET toggled == [column_vars EXCEPT ![col] = ~@]
         IN  /\ column_vars' = toggled
             /\ column_selection_state' =
                   SavedState(column_selection_state, toggled)
             /\ selected_columns' =
                   SelectedOf(df_columns,
                              SavedState(column_selection_state, toggled))
    /\ UNCHANGED <<df_columns, column_search_var, beside_select>>

\* lines 468-476: the Select All button
SelectAllFilteredColumns ==
    /\ column_vars' = [col \in DOMAIN column_vars |-> TRUE]
    /\ column_selection_state' =
          AllOfDisplayed(column_selection_state, column_vars)
    /\ selected_columns' =
          SelectedOf(df_columns,
                     AllOfDisplayed(column_selection_state, column_vars))
    /\ UNCHANGED <<df_columns, column_search_var, beside_select>>

\* lines 478-486: the Select None button
SelectNone ==
    /\ column_vars' = [col \in DOMAIN column_vars |-> FALSE]
    /\ column_selection_state' =
          NoneOfDisplayed(column_selection_state, column_vars)
    /\ selected_columns' =
          SelectedOf(df_columns,
                     NoneOfDisplayed(column_selection_state, column_vars))
    /\ UNCHANGED <<df_columns, column_search_var, beside_select>>

NextSelect ==
    \/ FilterColumns
    \/ ToggleColumn
    \/ SelectAllFilteredColumns
    \/ SelectNone

\* ================== DatasetInspector, SpecificInstanceExportWindow: pages

\* The largest number of columns of a dataset opened
MaxPageColumns == 201

\* The numbers of columns of the datasets opened: around the ends of the
\* pages of both windows
PageColumnCounts == {1, 20, 21, 41, 100, 101, MaxPageColumns}

\* The columns get_dataset_info reports for a dataset without labels:
\* Column_0, Column_1, ...
PageColumns(n) == [i \in 1..n |-> ColumnName(i - 1)]

\* The texts typed into the search entry of either window
PageSearchTexts == {<<>>, <<"1">>, <<"C", "o", "l", "u", "m", "n", "_", "1">>,
                    <<"x">>, <<"S">> \o Tail(SearchPlaceholder)}

\* dataset_inspector.py line 35, specific_instance_export_window.py line 31
columns_per_page(window) == IF window = "DatasetInspector" THEN 100 ELSE 20

\* Python's a // b for b > 0
FloorDiv(a, b) == IF a >= 0 THEN a \div b ELSE -(((-a) + b - 1) \div b)

\* math.ceil(a / b) for a >= 0 and b > 0
MathCeil(a, b) == (a + b - 1) \div b

\* s[a:b] for a Python list s and 0 <= a
ListSlice(s, a, b) == SubSeq(s, a + 1, Min2(b, Len(s)))

\* A page count from the truncated quotient of the number of columns
calculate_pagination_truncating(filtered, page) ==
    LET total == Max2(1, (Len(filtered)
                            \div columns_per_page("DatasetInspector")) + 1)
    IN  [total_pages |-> total,
         current_page |-> IF page >= total THEN Max2(0, total - 1)
                          ELSE page]

\* dataset_inspector.py lines 139-143: _calculate_pagination, as the
\* values of total_pages and current_page it leaves
calculate_pagination(filtered, page) ==
    LET total == Max2(1, FloorDiv(Len(filtered) - 1,
                                  columns_per_page("DatasetInspector")) + 1)
    IN  [total_pages |-> total,
         current_page |-> IF page >= total THEN Max2(0, total - 1)
                          ELSE page]

\* specific_instance_export_window.py lines 260-268: _update_pagination
update_pagination(filtered, page) ==
    LET total ==
          Max2(1, MathCeil(Len(filtered),
                           columns_per_page("SpecificInstanceExportWindow")))
    IN  [total_pages |-> total,
         current_page |-> IF page >= total THEN 0 ELSE page]

\* dataset_inspector.py lines 328-337: the columns _on_search_changed
\* keeps
on_search_changed(all_columns, text) ==
    LET search_text == LowerText(text)
    IN  IF search_text = <<>> THEN all_columns
        ELSE SelectSeq(all_columns,
                       LAMBDA col : IsSubstring(search_text, LowerText(col)))

\* specific_instance_export_window.py lines 386-397: the columns
\* _filter_columns keeps
filter_columns(all_columns, text) ==
    LET search_term == LowerText(text)
    IN  IF search_term = <<>> \/ search_term = SearchPlaceholder
        THEN all_columns
        ELSE SelectSeq(all_columns,
                       LAMBDA col : IsSubstring(search_term, LowerText(col)))

\* dataset_inspector.py lines 389-391: the columns _update_column_display
\* shows
update_column_display(filtered, page) ==
    LET start_idx == page * columns_per_page("DatasetInspector")
        end_idx == Min2(start_idx + columns_per_page("DatasetInspector"),
                        Len(filtered))
    IN  ListSlice(filtered, start_idx, end_idx)

\* specific_instance_export_window.py lines 297-301:
\* _get_current_page_columns
get_current_page_columns(filtered, page) ==
    LET start_idx ==
          page * columns_per_page("SpecificInstanceExportWindow")
        end_idx ==
          start_idx + columns_per_page("SpecificInstanceExportWindow")
    IN  ListSlice(filtered, start_idx, end_idx)

\* The pagination of a window after its filtered columns changed
Paginated(window, filtered, page) ==
    IF window = "DatasetInspector"
    THEN calculate_pagination(filtered, page)
    ELSE update_pagination(filtered, page)

\* The columns a window shows on one page
PageShown(window, filtered, page) ==
    IF window = "DatasetInspector"
    THEN update_column_display(filtered, page)
    ELSE get_current_page_columns(filtered, page)

\* Neither window is open; the values are those of __init__
\* (dataset_inspector.py lines 29-37).
IdlePages ==
    /\ pager = "none"
    /\ loaded_columns = <<>>
    /\ page_search_var = <<>>
    /\ filtered_columns = <<>>
    /\ current_page = 0
    /\ total_pages = 0
    /\ displayed_columns = <<>>

\* A window has loaded the columns of a dataset and shows its first page:
\* inspect_dataset (dataset_inspector.py lines 45-78) on a new inspector,
\* _load_columns (specific_instance_export_window.py lines 225-254).
InitPages ==
    /\ pager \in {"DatasetInspector", "SpecificInstanceExportWindow"}
    /\ \E n \in PageColumnCounts : loaded_columns = PageColumns(n)
    /\ page_search_var = <<>>
    /\ filtered_columns = loaded_columns
    /\ current_page = Paginated(pager, loaded_columns, 0).current_page
    /\ total_pages = Paginated(pager, loaded_columns, 0).total_pages
    /\ displayed_columns = PageShown(pager, loaded_columns, current_page)

\* dataset_inspector.py lines 45-78: the inspector of the main window
\* (main_window.py line 23) is asked for another dataset; a dataset
\* without columns is refused after all_columns was replaced (lines
\* 62-68).
InspectDataset ==
    /\ pager = "DatasetInspector"
    /\ \E n \in PageColumnCounts \cup {0} :
         LET info_columns == PageColumns(n)
             p == calculate_pagination(info_columns, current_page)
         IN  /\ loaded_columns' = info_columns
             /\ IF info_columns = <<>>
                THEN UNCHANGED <<page_search_var, filtered_columns,
                                 current_page, total_pages,
                                 displayed_columns>>
                ELSE /\ filtered_columns' = info_columns
                     /\ total_pages' = p.total_pages
                     /\ current_page' = p.current_page
                     /\ page_search_var' = <<>>
                     /\ displayed_columns' =
                          update_column_display(info_columns, p.current_page)
    /\ UNCHANGED <<pager, beside_pages>>

\* The search text is written: _on_search_changed (dataset_inspector.py
\* lines 326-343), _filter_columns (specific_instance_export_window.py
\* lines 380-404)
SearchChanged ==
    /\ pager # "none"
    /\ \E text \in PageSearchTexts :
         LET kept == IF pager = "DatasetInspector"
                     THEN on_search_changed(loaded_columns, text)
                     ELSE filter_columns(loaded_columns, text)
             p == Paginated(pager, kept, 0)
         IN  /\ page_search_var' = text
             /\ IF pager # "DatasetInspector" /\ loaded_columns = <<>>
                THEN UNCHANGED <<filtered_columns, current_page,
                                 total_pages, displayed_columns>>
                ELSE /\ filtered_columns' = kept
                     /\ total_pages' = p.total_pages
                     /\ current_page' = p.current_page
                     /\ displayed_columns' =
                          PageShown(pager, kept, p.current_page)
    /\ UNCHANGED <<pager, loaded_columns, beside_pages>>

\* _previous_page (dataset_inspector.py lines 361-366,
\* specific_instance_export_window.py lines 283-288)
PreviousPage ==
    /\ pager # "none"
    /\ current_page > 0
    /\ current_page' = current_page - 1
    /\ displayed_columns' =
         PageShown(pager, filtered_columns, current_page - 1)
    /\ UNCHANGED <<pager, loaded_columns, page_search_var,
                   filtered_columns, total_pages, beside_pages>>

\* _next_page (dataset_inspector.py lines 368-373,
\* specific_instance_export_window.py lines 290-295)
NextPage ==
    /\ pager # "none"
    /\ current_page < total_pages - 1
    /\ current_page' = current_page + 1
    /\ displayed_columns' =
         PageShown(pager, filtered_columns, current_page + 1)
    /\ UNCHANGED <<pager, loaded_columns, page_search_var,
                   filtered_columns, total_pages, beside_pages>>

NextPages ==
    \/ InspectDataset
    \/ SearchChanged
    \/ PreviousPage
    \/ NextPage

\* One run of the program exercises one of the two export paths.
Init ==
    \/ /\ InitExporter /\ IdleWindow /\ IdleHandler /\ IdleSearch
       /\ IdleMain /\ IdleSelect /\ IdlePages
    \/ /\ IdleExporter /\ InitWindow /\ IdleHandler /\ IdleSearch
       /\ IdleMain /\ IdleSelect /\ IdlePages

Next == NextExporter \/ NextWindow

Spec == Init /\ [][Next]_vars

\* The column list of one export window: searches, ticks, Select All and
\* Select None.
InitOfSelect ==
    /\ IdleExporter /\ IdleWindow /\ IdleHandler /\ IdleSearch
    /\ IdleMain /\ InitSelect /\ IdlePages

SpecSelect == InitOfSelect /\ [][NextSelect]_vars

\* The column pages of one inspector or one search window.
InitOfPages ==
    /\ IdleExporter /\ IdleWindow /\ IdleHandler /\ IdleSearch
    /\ IdleMain /\ IdleSelect /\ InitPages

SpecPages == InitOfPages /\ [][NextPages]_vars

\* The steps of the export thread of the export window
WorkerStep ==
    \/ WorkerStart
    \/ WorkerRead
    \/ WorkerFilter
    \/ WorkerCheckRead
    \/ WorkerCheckColumns
    \/ WorkerToCsv
    \/ LargeOpen
    \/ LargePoll
    \/ LargeWrite
    \/ LargeEnd
    \/ WorkerFinish
    \/ WorkerExcept

\* The export window alone, with its scheduling: a started thread keeps
\* running to its end (threading.Thread, line 640) and the Tk main loop
\* keeps running the callbacks queued with after(0, ...); the user is
\* free to press or not to press a button.
InitOfWindow ==
    /\ IdleExporter /\ InitWindow /\ IdleHandler /\ IdleSearch
    /\ IdleMain /\ IdleSelect /\ IdlePages

SpecWindowLive ==
    /\ InitOfWindow
    /\ [][NextWindow]_vars
    /\ WF_vars(WorkerStep)
    /\ WF_vars(RunAfter)

\* The methods of H5FileHandler called on one object of a file.
InitOfHandler ==
    /\ IdleExporter /\ IdleWindow /\ InitHandler /\ IdleSearch
    /\ IdleMain /\ IdleSelect /\ IdlePages

SpecHandler == InitOfHandler /\ [][NextHandler]_vars

\* One value search in a SpecificInstanceExportWindow.
InitOfSearch ==
    /\ IdleExporter /\ IdleWindow /\ IdleHandler /\ InitSearch
    /\ IdleMain /\ IdleSelect /\ IdlePages

\* One session of the main window: files selected and cleared, datasets
\* opened from the list.
InitOfMain ==
    /\ IdleExporter /\ IdleWindow /\ IdleHandler /\ IdleSearch
    /\ InitMain /\ IdleSelect /\ IdlePages

SpecMain == InitOfMain /\ [][NextMain]_vars

SpecSearch == InitOfSearch /\ [][NextSearch]_vars

\* ================================================================ claims

\* ---- C1
\* The row-selection syntax, as the interface states it: a token is a
\* non-negative integer, or start-end with start <= end.
IsNatText(t) ==
    /\ Strip(t) # <<>>
    /\ \A i \in 1..Len(Strip(t)) : IsDigit(Strip(t)[i])

IsRangeText(t) ==
    \E p \in 1..Len(t) :
        /\ t[p] = "-"
        /\ IsNatText(SubSeq(t, 1, p - 1))
        /\ IsNatText(SubSeq(t, p + 1, Len(t)))
        /\ IntOf(SubSeq(t, 1, p - 1)) <= IntOf(SubSeq(t, p + 1, Len(t)))

HasMalformedToken(text) ==
    \E i \in 1..Len(Split(text, ",")) :
        LET t == Split(text, ",")[i] IN ~IsNatText(t) /\ ~IsRangeText(t)

\* The _export_csv call read the row selection (it had columns to export).
UsedRowSelection == attempt \notin {"none", "no_columns"}

\* The call ended with the input error and touched neither file.
RejectedBeforeIO ==
    /\ attempt = "input_error"
    /\ message_box.title = "Input Error"
    /\ worker = "none"
    /\ h5_reads = 0
    /\ csv_file = csv_at_call

\* C1 as stated: every row-selection text with a malformed token is
\* rejected with an input error before any read of the HDF5 file and any
\* write of the output file, and is never taken as 'all rows'.
C1_MalformedAlwaysRejected ==
    (UsedRowSelection /\ HasMalformedToken(row_selection_string))
        => RejectedBeforeIO

\* C1 amended: every row-selection text with a malformed token, other than
\* the empty text and the placeholder "Leave blank for all rows" (which
\* both mean all rows), is rejected with an input error before any read of
\* the HDF5 file and any write of the output file.
C1_MalformedRejectedUnlessBlank ==
    (/\ UsedRowSelection
     /\ HasMalformedToken(row_selection_string)
     /\ row_selection_string # <<>>
     /\ row_selection_string # Placeholder)
        => RejectedBeforeIO

C1_Witness ==
    /\ row_selection_string = <<"2", "-", "1">>
    /\ attempt = "input_error"
    /\ message_box.text = "Invalid range format"

\* ---- C2
HeaderCount(lines) ==
    Cardinality({i \in 1..Len(lines) : lines[i].kind = "header"})

\* s extends t by lines (or segments) that are all data rows
ExtendsByRows(s, t) ==
    /\ Len(s) >= Len(t)
    /\ SubSeq(s, 1, Len(t)) = t
    /\ \A i \in (Len(t) + 1)..Len(s) : s[i].kind \in {"row", "rows"}

OneHeaderFirst(lines) ==
    HeaderCount(lines) = 1 /\ lines[1].kind = "header"

\* C2: once a chunk is written the output holds exactly one header line,
\* which is its first line; every later chunk of export_to_csv and every
\* chunk of _export_large_csv is appended without a header, and the size
\* of the output does not decrease from one chunk write to the next.
C2_SingleHeaderGrowingFile ==
    [][/\ chunk_idx' >= 1 => OneHeaderFirst(output_csv'.lines)
       /\ chunks_written' >= 1 => OneHeaderFirst(csv_file'.segs)
       /\ (chunk_idx >= 1 /\ chunk_idx' = chunk_idx + 1) =>
             /\ ExtendsByRows(output_csv'.lines, output_csv.lines)
             /\ FileSize(output_csv') >= FileSize(output_csv)
       /\ chunks_written' = chunks_written + 1 =>
             /\ ExtendsByRows(csv_file'.segs, csv_file.segs)
             /\ SegsSize(csv_file'.segs) >= SegsSize(csv_file.segs)
      ]_vars

C2_Witness ==
    /\ chunk_idx = 2
    /\ Len(chunks) = 2
    /\ result = "returned"
    /\ csv_before.lines = <<OldLine>>

\* ---- C3
Delivered(pct) == \E i \in 1..Len(progress_calls) : progress_calls[i] = pct

\* C3: the percentages passed to the progress callback during one job
\* never decrease, all lie in [0, 100], and 100 is passed only by a job
\* that succeeds, also when the job fails or is cancelled part-way.
C3_ProgressMonotone ==
    /\ \A i \in 1..(Len(progress_calls) - 1) :
          PctLeq(progress_calls[i], progress_calls[i + 1])
    /\ \A i \in 1..Len(progress_calls) :
          /\ PctLeq(Pct(0, 1), progress_calls[i])
          /\ PctLeq(progress_calls[i], Pct(100, 1))
    /\ (Delivered(Pct(100, 1)) /\ pc = "done") => result = "returned"

\* ---- C4
\* Chunks of the running _export_large_csv: ceil(len(data_df) / 50000).
LargeChunks == (FrameLen(data_df) + LargeChunk - 1) \div LargeChunk

\* What the window reports about the job once the worker has ended and
\* every queued callback has run.
ReportedStatus ==
    IF message_box.title = "Export Complete" THEN "complete"
    ELSE IF message_box.title = "Export Error" THEN "failed"
    ELSE IF status_label = "Cancelling export..." THEN "cancelled"
    ELSE "running"

\* C4: when Cancel is pressed after chunk k of n was written (0 < k < n),
\* no chunk after k is written and the job is reported as cancelled.
C4_CancelStopsAfterChunk ==
    (cancelled_after >= 1 /\ cancelled_after < LargeChunks) =>
        /\ chunks_written <= cancelled_after
        /\ (worker = "ended" /\ after_queue = <<>>) =>
              ReportedStatus = "cancelled"

\* ---- C5
RECURSIVE ChunkLines(_, _, _, _)
ChunkLines(ds, cols, chs, k) ==
    IF k = 0 THEN <<>>
    ELSE ChunkLines(ds, cols, chs, k - 1)
         \o [i \in 1..Len(ChunkFrame(ds, chs[k])) |->
               RowLine(cols, ChunkFrame(ds, chs[k])[i])]

RECURSIVE LargeSegs(_, _)
LargeSegs(df, k) ==
    IF k = 0 THEN <<>>
    ELSE LargeSegs(df, k - 1)
         \o FrameSegs(df, (k - 1) * LargeChunk,
                      Min2(k * LargeChunk, FrameLen(df)))

\* The call has left the try block through an exception.
Aborted == pc \in {"except_InterruptedError", "except_Exception"}
           \/ result \in {"InterruptedError", "Exception"}

\* C5: after a cancellation or failure that follows k >= 1 chunk writes,
\* the output still holds the header and the k chunks, unchanged, in
\* export_to_csv as in the export window.
C5_PartialOutputKept ==
    /\ (Aborted /\ chunk_idx >= 1) =>
          output_csv = [exists |-> TRUE,
                        lines |-> <<HeaderLine(columns)>>
                                  \o ChunkLines(dataset, columns, chunks,
                                                chunk_idx)]
    /\ (cancel_export /\ chunks_written >= 1) =>
          csv_file = [exists |-> TRUE,
                      segs |-> <<HeaderSeg(data_df.cols)>>
                               \o LargeSegs(data_df, chunks_written)]

C5_Witness ==
    /\ result = "InterruptedError"
    /\ chunk_idx = 2
    /\ Len(chunks) = 3
    /\ csv_before.lines = <<OldLine>>

\* ---- C6
\* C6: 100 is delivered and the call returns only with an output file that
\* exists and is not empty; a job that reaches the completion check with
\* a missing or empty file ends with an exception.
C6_SuccessNeedsOutput ==
    /\ (Delivered(Pct(100, 1)) \/ pc = "complete" \/ result = "returned")
          => (output_csv.exists /\ output_csv.lines # <<>>)
    /\ (Delivered(Pct(95, 1))
        /\ (~output_csv.exists \/ output_csv.lines = <<>>)) =>
          /\ Aborted
          /\ ~Delivered(Pct(100, 1))

C6_Witness ==
    /\ result = "Exception"
    /\ Delivered(Pct(95, 1))
    /\ output_csv = [exists |-> TRUE, lines |-> <<>>]

\* ---- C7
\* The requested columns the dataset has, in requested order.
RECURSIVE Remaining(_)
Remaining(cols) ==
    IF cols = <<>> THEN <<>>
    ELSE IF Head(cols) \in SeqToSet(DsColumns)
    THEN <<Head(cols)>> \o Remaining(Tail(cols))
    ELSE Remaining(Tail(cols))

C7_WitnessNoColumn ==
    /\ columns_arg = <<"z">>
    /\ result = "Exception"
    /\ csv_before = NoFile

\* ---- C8
WrittenRows(f) ==
    LET data == SelectSeq(f.lines, LAMBDA l : l.kind = "row")
    IN  [i \in 1..Len(data) |-> data[i].row]

\* C8: an explicit rows list is exported deduplicated and ascending, each
\* selected row exactly once; rows=None exports all rows.
C8_RowsDeduplicatedSorted ==
    (result = "returned" /\ chunk_idx >= 1) =>
        /\ rows.none =>
              WrittenRows(output_csv) = RangeList(0, dataset.nrows - 1)
        /\ Truthy(rows) =>
              WrittenRows(output_csv) = SortedOfSet(SeqToSet(rows.list))

\* ---- C9
\* The chunk plan exists from the end of validation on.
Planned == pc \in {"chunking", "writing", "finalizing", "complete"}

\* C9: the read plan for an explicit contiguous ascending rows list is
\* made of (start, end) slices.
C9_ContiguousUsesSlices ==
    (Planned /\ Len(rows.list) >= 2 /\ AllConsecutive(rows.list)) =>
        \A k \in 1..Len(chunks) : chunks[k].slice

\* ---- C10
\* Read the whole table, keep the rows whose index is selected.
NaiveFilter(ds, selected) ==
    SelectSeq(ReadSlice(ds, 0, ds.nrows), LAMBDA r : r \in SeqToSet(selected))

\* C10: for a non-contiguous explicit rows list within the row count, the
\* rows written are those of the naive read-all-then-filter, in its order.
C10_SameAsNaiveFilter ==
    (/\ result = "returned"
     /\ Truthy(rows)
     /\ ~AllConsecutive(Sorted(rows.list))
     /\ \A i \in 1..Len(rows.list) : rows.list[i] < dataset.nrows)
        => WrittenRows(output_csv) = NaiveFilter(dataset, rows.list)

\* ---- C11
\* The chunks are (start, end) slices that split [0, n) into consecutive
\* non-empty half-open ranges in ascending order.
SplitsRange(chs, n) ==
    /\ \A k \in 1..Len(chs) : chs[k].slice /\ chs[k].start < chs[k].end
    /\ \A k \in 1..(Len(chs) - 1) : chs[k].end = chs[k + 1].start
    /\ IF n = 0 THEN chs = <<>>
       ELSE chs # <<>> /\ chs[1].start = 0 /\ chs[Len(chs)].end = n

\* The CSV of the whole table: the header, then every row once, in order.
WholeTable(cols, n) ==
    <<HeaderLine(cols)>> \o [i \in 1..n |-> RowLine(cols, i - 1)]

AllColumnsAllRows ==
    /\ pc # "idle"
    /\ dataset.kind # "array"
    /\ rows.none
    /\ SeqToSet(columns_arg) = SeqToSet(DsColumns)

\* C11: exporting all columns and all rows (rows = None) of a table with
\* N rows, with any chunk_size >= 1, plans consecutive half-open chunks
\* that cover [0, N) exactly once in ascending order, and the finished CSV
\* holds the header and then every row of the table once, in row order.
C11_RoundTripAllRows ==
    AllColumnsAllRows =>
       /\ pc \in {"chunking", "writing", "finalizing", "complete"} =>
             SplitsRange(chunks, dataset.nrows)
       /\ result = "returned" =>
             output_csv.lines = WholeTable(columns_arg, dataset.nrows)

\* ---- C12
\* A display sample was asked of a 2-D leaf array with more elements than
\* max_elements (max_elements >= 1).
TruncatedSample2D ==
    /\ op.name = "get_dataset_data"
    /\ op.max_elements >= 1
    /\ obj.type = "dataset"
    /\ Len(obj.shape) = 2
    /\ Product(obj.shape) > op.max_elements

\* C12: get_dataset_data on a 2-D leaf array with more elements than
\* max_elements returns max_elements // n_columns whole rows when at least
\* one row fits, and a non-empty result (at least one row or one column)
\* also when max_elements is smaller than the number of columns.
C12_SampleNeverEmpty ==
    TruncatedSample2D =>
       /\ ~ret.raised
       /\ op.max_elements \div obj.shape[2] >= 1 =>
             ret.value.shape = <<op.max_elements \div obj.shape[2],
                                 obj.shape[2]>>
       /\ Product(ret.value.shape) > 0

\* ---- C13
\* The bounded read read_dataset(path, (start, end)) that export_to_csv
\* issues for a chunk (lines 71-75).
ReadStart(chunk) == IF chunk.slice THEN chunk.start ELSE SeqMin(chunk.idx)
ReadEnd(chunk) == IF chunk.slice THEN chunk.end ELSE SeqMax(chunk.idx) + 1

\* C13: every bounded read of a table returns exactly the rows
\* start .. min(end, extent) - 1, and a read whose end lies past the last
\* row neither fails nor makes a later step of the same chunk (the
\* in-memory row filtering of the export) fail.
C13_ReadsClamped ==
    (pc = "writing" /\ dataset.kind # "array") =>
       LET chunk == chunks[chunk_idx + 1]
       IN  /\ ChunkRead(dataset, chunk)
                = RangeList(ReadStart(chunk),
                            Min2(ReadEnd(chunk), dataset.nrows) - 1)
           /\ ReadEnd(chunk) > dataset.nrows =>
                 ~ChunkRaises(dataset, chunk, columns)

\* ---- C14
\* C14: for a leaf node whose element type is a structured/record type,
\* whatever its number of dimensions, get_dataset_info returns as columns
\* exactly the record's field names in declared order.
C14_StructuredColumnsAreFields ==
    (op.name = "get_dataset_info" /\ obj.type = "dataset"
     /\ obj.fields.structured) =>
       /\ ~ret.raised
       /\ ret.value.columns = obj.fields.names

C14_Witness ==
    /\ op.name = "get_dataset_info"
    /\ obj.type = "dataset"
    /\ Len(obj.shape) = 2
    /\ obj.fields = Fields(<<<<"y">>, <<"x">>>>)
    /\ ret = Returned(Info(ShapeTuple(obj.shape), <<<<"y">>, <<"x">>>>))

\* ---- C15
PlainLeafInfo ==
    /\ op.name = "get_dataset_info"
    /\ obj.type = "dataset"
    /\ ~obj.fields.structured

\* C15 as stated: for a leaf array whose element type is not a record
\* type, get_dataset_info reports no columns, whatever the number of
\* dimensions.
C15_PlainLeafHasNoColumns ==
    PlainLeafInfo => (~ret.raised /\ ret.value.columns = <<>>)

\* C15 amended: for a leaf array whose element type is not a record type,
\* get_dataset_info reports no columns unless the array is 2-D; for a 2-D
\* array of n columns it reports the n generic names Column_0 ..
\* Column_<n-1>.
C15_PlainLeafColumnsOnlyIn2D ==
    PlainLeafInfo =>
       /\ ~ret.raised
       /\ Len(obj.shape) # 2 => ret.value.columns = <<>>
       /\ Len(obj.shape) = 2 =>
             /\ Len(ret.value.columns) = obj.shape[2]
             /\ \A i \in 1..obj.shape[2] :
                   ret.value.columns[i]
                     = <<"C", "o", "l", "u", "m", "n", "_">> \o Decimal(i - 1)

C15_Witness ==
    /\ PlainLeafInfo
    /\ obj.shape = <<1, 2>>
    /\ ~ret.raised
    /\ Len(ret.value.columns) = 2

\* ---- C16
\* The labels of an array whose read and decoding did not fail.
WholeLabels(arr) ==
    IF arr.present /\ ~CollectRaises(arr) THEN Collected(arr) ELSE <<>>

RECURSIVE ConcatWhole(_, _)
ConcatWhole(items, keys) ==
    IF keys = <<>> THEN <<>>
    ELSE WholeLabels(items[Head(keys)]) \o ConcatWhole(items, Tail(keys))

ColumnsOfGroup == op.name = "get_dataframe_columns" /\ obj.type = "group"

NumericOrder(numbers) == SortSeq(SortedOfSet(numbers), LAMBDA a, b : a < b)

InferenceCall == op.name \in {"get_dataset_info", "get_dataframe_columns"}

ColumnsOf(r) == IF op.name = "get_dataset_info" THEN r.value.columns
                ELSE r.value

\* C18 as stated: for any path, also one that is not in the file or whose
\* node cannot be read, get_dataset_info and get_dataframe_columns return
\* a result instead of raising, with an empty column list for such a path.
C18_InferenceNeverRaises ==
    InferenceCall =>
       /\ ~ret.raised
       /\ obj.type \in {"missing", "broken"} => ColumnsOf(ret) = <<>>

\* C18 amended: get_dataframe_columns never raises, and returns the empty
\* list for a path that is missing, cannot be read or is not a group;
\* get_dataset_info raises exactly when the path is not in the file or its
\* node cannot be accessed, and for a group whose label arrays all fail
\* to be read it returns a result with an empty column list.
C18_OnlyDatasetInfoRaises ==
    /\ op.name = "get_dataframe_columns" =>
          /\ ~ret.raised
          /\ obj.type # "group" => ret.value = <<>>
    /\ op.name = "get_dataset_info" =>
          /\ ret.raised <=> obj.type \in {"missing", "broken"}
          /\ (obj.type = "group"
              /\ (obj.axis0.present => CollectRaises(obj.axis0))
              /\ \A n \in DOMAIN obj.items :
                    ~obj.items[n].readable) =>
                ret.value.columns = <<>>

C18_Witness ==
    /\ op.name = "get_dataset_info"
    /\ obj = MissingNode
    /\ ret.raised

\* ---- C19
\* The search ended and status_label shows a result, not an error.
ScanEndedWithoutError ==
    scan_pc = "done" /\ preview_status \in {"no_matches", "ready_to_export"}

\* The ranges are read in strictly ascending row order, none overlapping
\* an earlier one.
AscendingRanges(ranges) ==
    \A k \in 1..(Len(ranges) - 1) : ranges[k].hi <= ranges[k + 1].lo

\* The ranges hold every row of 0 .. n - 1 exactly once.
CoversOnce(ranges, n) ==
    /\ AscendingRanges(ranges)
    /\ \A k \in 1..(Len(ranges) - 1) : ranges[k].hi = ranges[k + 1].lo
    /\ IF n = 0 THEN \A k \in 1..Len(ranges) : ranges[k].lo = ranges[k].hi
       ELSE ranges # <<>> /\ ranges[1].lo = 0 /\ ranges[Len(ranges)].hi = n

NonDecreasing(counts) ==
    \A k \in 1..(Len(counts) - 1) : counts[k] <= counts[k + 1]

\* C19: for any column of the dataset and any target text, chunks are
\* scanned in strictly ascending row order and the match count shown
\* never decreases; when the scan ends without a reported error every row
\* of the dataset has been scanned exactly once and the result table holds
\* exactly the rows of the whole dataset whose column value matches the
\* target, in ascending row order.
C19_ScanFindsAllMatches ==
    selected_column \in ScanColumns =>
       /\ AscendingRanges(scanned)
       /\ NonDecreasing(matches_shown)
       /\ ScanEndedWithoutError =>
             /\ CoversOnce(scanned, scan_node.nrows)
             /\ filtered_df = ChunkMatches(scan_node, selected_column,
                                           search_value, 0, scan_node.nrows)

\* ---- C20
\* C20: a search of a numeric column with a target text that is not a
\* number ends normally, not with an error, and with zero matches; a
\* search of a non-numeric column keeps only rows whose text equals the
\* target text.
C20_NumericFallbackNoMatches ==
    (scan_pc = "done" /\ search_value # <<>>) =>
       /\ (IsNumericColumn(selected_column)
           /\ ToNumericRaises(search_value)) =>
             /\ preview_status = "no_matches"
             /\ filtered_df = <<>>
       /\ (selected_column \in ScanColumns
           /\ ~IsNumericColumn(selected_column)) =>
             \A k \in 1..Len(filtered_df) :
                ValueAt(scan_node, selected_column, filtered_df[k])
                  = search_value

\* ---------------------------------------------------------------- C21
\* The row counts a search can be compared with: those of the datasets
\* searched and the fallback of lines 498 and 500.
ComparedRowCounts == ScanRowCounts \cup {DefaultTotalRows}

\* The search has chosen its chunk size (line 512 done).
ChunkSizeChosen == scan_pc \in {"scanning", "done"} /\ preview_status # "ready"
                   /\ preview_status # "select_column"

\* C21: the chunk size chosen by the value-match filter is non-decreasing
\* in the row count: it is at least the chunk size chosen for every
\* dataset with fewer rows; and a dataset of at most 100000 rows is
\* scanned as a single chunk (chunk size = row count).
C21_ChunkSizeMonotone ==
    ChunkSizeChosen =>
       /\ \A m \in ComparedRowCounts :
             m <= scan_total_rows =>
                AdaptiveChunkSize(m) <= scan_chunk_size
       /\ scan_total_rows <= 100000 => scan_chunk_size = scan_total_rows

\* ---------------------------------------------------------------- C22
\* The progress callback raised InterruptedError at a milestone or between
\* two chunks.
CancellationRaised == interrupted_at >= 0

\* C22: in export_to_csv a cancellation (InterruptedError raised by the
\* progress callback inside the try body) is handled by the
\* "except InterruptedError" clause only: the call ends by raising
\* InterruptedError, never the wrapped "Chunked export failed" Exception,
\* and no chunk is written after the cancellation was raised.
C22_CancellationUnwrapped ==
    CancellationRaised =>
       /\ pc \in {"except_InterruptedError", "done"}
       /\ pc = "done" => result = "InterruptedError"
       /\ chunk_idx = interrupted_at
       /\ output_csv =
             IF interrupted_at = 0 THEN csv_before
             ELSE [exists |-> TRUE,
                   lines |-> <<HeaderLine(columns)>>
                             \o ChunkLines(dataset, columns, chunks,
                                           interrupted_at)]

\* An export cancelled between two chunks has ended.
C22_Witness ==
    /\ interrupted_at >= 1
    /\ interrupted_at < Len(chunks)
    /\ pc = "done"
    /\ result = "InterruptedError"

\* ---------------------------------------------------------------- C23
\* The operations that infer the column list of a node
ColumnInferences == {"get_dataset_info", "get_dataframe_columns",
                     "load_columns"}

\* The column list a call o of a column inference returned with result r
ColumnList(o, r) == IF o.name = "get_dataset_info" THEN r.value.columns
                    ELSE r.value

\* C23: for a fixed file and node, every column inference that returns
\* (get_dataset_info, get_dataframe_columns, the column loading of the
\* export window) returns the same column list as the inference called
\* before it, whichever of the operations the two calls are.
C23_ColumnsStable ==
    [][(/\ op.name \in ColumnInferences
        /\ op'.name \in ColumnInferences
        /\ ~ret.raised
        /\ ~ret'.raised) =>
          ColumnList(op', ret') = ColumnList(op, ret)]_vars

\* ---------------------------------------------------------------- C24
\* A dataset with identifiable columns and a valid tabular shape: at
\* least one row, or the inferred shape of a group.
Exportable(node) ==
    /\ ~get_dataset_info(node).raised
    /\ HasColumns(get_dataset_info(node).value)
    /\ HasValidShape(get_dataset_info(node).value)

\* The listed datasets of the loaded file that are exportable
ExportableListed ==
    {i \in SeqToSet(list_datasets) :
        Exportable(disk[main_current_file].tree[i])}

\* C24: after a file is loaded through _on_file_uploaded, the datasets
\* marked exportable (green) in the dataset list are exactly the listed
\* datasets with columns and a valid tabular shape, and the exportable
\* count reported is their number.
C24_ExportableMarked ==
    main_current_file # NoPath =>
       /\ success_buttons = ExportableListed
       /\ exportable_count = Cardinality(ExportableListed)

\* ---------------------------------------------------------------- C29
\* C29: after any sequence of file selections and Clear operations the
\* file shown as selected by FileUpload is the file MainWindow operates
\* on; the dataset list offers datasets only of that file, so that after
\* Clear or a rejected upload no dataset of a file loaded earlier can be
\* opened, and every options dialog was opened on the file shown as
\* selected.
C29_SelectedFileIsLoaded ==
    /\ upload_current_file = main_current_file
    /\ list_datasets # <<>> =>
          /\ upload_current_file # NoPath
          /\ validate_file(disk[upload_current_file])
          /\ list_datasets = get_datasets(disk[upload_current_file])
    /\ options_dialog # NoDialog =>
          options_dialog.file = options_dialog.selected

\* ---------------------------------------------------------------- C25
\* The progress dialog is closed and a message box shows the outcome of
\* the export.
OutcomeShown ==
    /\ ui # "progress"
    /\ message_box.title \in {"Export Complete", "Export Error",
                              "Export Cancelled"}

\* C25: every export started from the export window eventually ends with
\* its outcome shown to the user and the progress dialog closed, whatever
\* the interleaving of the export thread with the Cancel button.
C25_ExportEnds == (ui = "progress") ~> OutcomeShown

\* ---------------------------------------------------------------- C26
\* export_to_csv has reported completion: 100 was delivered with the
\* message "Export complete" (line 88).
CompletionReported == Delivered(Pct(100, 1))

\* C26: when export_to_csv reports completion the output file holds
\* exactly what this job wrote, one header and the rows of its chunks;
\* a job that selects zero rows never reports completion, whatever the
\* output path held before.
C26_CompletionIsOwnOutput ==
    CompletionReported =>
       /\ total_rows_to_export > 0
       /\ output_csv = [exists |-> TRUE,
                        lines |-> <<HeaderLine(columns)>>
                                  \o ChunkLines(dataset, columns, chunks,
                                                Len(chunks))]

\* ---------------------------------------------------------------- C27
\* The columns whose persistent selection state is true
StateSelected ==
    {col \in DOMAIN column_selection_state : column_selection_state[col]}

\* C27: in the export window, after Select None no column is selected,
\* whatever searches, ticks and Select All operations came before; and
\* after every operation selected_columns is the set of the columns whose
\* persistent selection state is true.
C27_SelectNoneClearsAll ==
    [][/\ SelectNone => selected_columns' = <<>>
       /\ SeqToSet(selected_columns') = StateSelected']_vars

\* ---------------------------------------------------------------- C28
\* A search was run (a value and a column were given) and has ended.
SearchEnded ==
    /\ scan_pc = "done"
    /\ preview_status \notin {"ready", "select_column"}

\* C28: a value search on a dataset with zero rows ends normally with
\* zero matches: the status is "No matches found", not "Error occurred".
C28_ZeroRowsNoMatches ==
    (SearchEnded /\ scan_node.nrows = 0) =>
       /\ preview_status = "no_matches"
       /\ filtered_df = <<>>

\* ---- C30
\* ceil(n / per), from its definition
CeilOfQuotient(n, per) ==
    CHOOSE k \in 0..n : k * per >= n /\ (k - 1) * per < n

\* What the pages from page p on show, one after the other
RECURSIVE ShownFrom(_)
ShownFrom(p) ==
    IF p >= total_pages THEN <<>>
    ELSE PageShown(pager, filtered_columns, p) \o ShownFrom(p + 1)

\* C30: in a DatasetInspector and in a SpecificInstanceExportWindow, after
\* any sequence of search changes, Next and Previous, 0 <= current_page <
\* total_pages, total_pages = max(1, ceil(number of filtered columns /
\* columns_per_page)), and every filtered column is shown on exactly one
\* page: the pages, one after the other, are the filtered columns, and the
\* window shows the current one.
C30_PagesCoverFiltered ==
    pager # "none" =>
      /\ 0 <= current_page
      /\ current_page < total_pages
      /\ total_pages =
           Max2(1, CeilOfQuotient(Len(filtered_columns),
                                  columns_per_page(pager)))
      /\ ShownFrom(0) = filtered_columns
      /\ displayed_columns =
           PageShown(pager, filtered_columns, current_page)

\* An inspector on the second page of several after a search that kept
\* some of the columns.
C30_Witness ==
    /\ pager = "DatasetInspector"
    /\ page_search_var # <<>>
    /\ Len(filtered_columns) < Len(loaded_columns)
    /\ total_pages >= 2
    /\ current_page >= 1


====
